---- MODULE Spec2Model ----
(***************************************************************************)
(* StepSight obstacle alert pipeline.                                      *)
(*                                                                         *)
(* Units.  Normalised positions (x, y) and confidences are integers in     *)
(* hundredths (0.25 is 25).  Distances and the step length are in          *)
(* centimetres.  Times are in milliseconds.  A priority is the source's    *)
(* number times 100.  A velocity is kept exactly as the pair (n, d) that   *)
(* stands for 10 * sqrt(n) / d: the tracker's movement / (dt / 1000) with  *)
(* n = dx^2 + dy^2 in hundredths^2 and d = dt in ms; d = 0 is the          *)
(* division by zero of the source (Infinity when n > 0, NaN when n = 0).   *)
(* The fields width, height and boundingBox of a Detection are never read  *)
(* by the pipeline and are left out.                                       *)
(***************************************************************************)
EXTENDS Integers, Sequences, FiniteSets, TLC

VARIABLES
    now,            \* Date.now() of the last event
    stepLength,     \* AIDetectionService.stepLength
    lastAlerts,     \* AIDetectionService.lastAlerts : label -> time
    objectTracker,  \* AIDetectionService.objectTracker : key -> history
    stage,          \* the stage lists of the last tick (tracked .. filtered)
    alerts,         \* what the last processDetections call returned
    outcome,        \* how the last tick ended
    screen,         \* CameraScreen: isActive, timers, currentAlert
    ticks,          \* ticks run so far
    emitted,        \* history: label -> time and x of the last alert emitted for it
    api,            \* APIDetectionService: availability cache, calls in flight
    web,            \* web simulation screen
    probe,          \* inputs and results of functions applied alone; the second service of a twin run
    settings        \* useSettings of CameraScreen: the settings state and isLoading

vars == <<now, stepLength, lastAlerts, objectTracker, stage, alerts, outcome,
          screen, ticks, emitted, api, web, probe, settings>>

svcVars == <<stepLength, lastAlerts, objectTracker>>
tickVars == <<stage, alerts, outcome>>

(***************************************************************************)
(* Configuration of AIDetectionService.                                    *)
(***************************************************************************)
CENTER_FOV_THRESHOLD == 25
ALERT_COOLDOWN_MS == 4000
POSITION_CHANGE_THRESHOLD == 15
\* 0.8 steps, in tenths of a step
CLUSTER_DISTANCE_THRESHOLD == 8
MIN_CONFIDENCE == 60
TRACKING_HISTORY_SIZE == 5
MOVEMENT_THRESHOLD == 5
\* maxAge of cleanOldTrackingData
TRACK_MAX_AGE == 10000
\* age limit of lastAlerts in cleanOldTrackingData
ALERT_MAX_AGE == 30000
DEFAULT_STEP_LENGTH == 65

CRITICAL_OBJECTS == {"person", "car", "bicycle", "motorcycle", "truck"}
WARNING_OBJECTS == {"chair", "table", "door", "pole", "stairs", "step"}
INFO_OBJECTS == {"wall", "tree", "bench", "trash can", "sign"}

\* Platform.OS !== 'web' on the device the model runs
PlatformIsWeb == FALSE

Abs(a) == IF a < 0 THEN -a ELSE a

EmptyMap == [k \in {} |-> 0]

MapSet(m, k, v) == [j \in DOMAIN m \cup {k} |-> IF j = k THEN v ELSE m[j]]

MapRestrict(m, S) == [j \in S |-> m[j]]

Range(s) == {s[i] : i \in DOMAIN s}

(***************************************************************************)
(* Velocities.                                                             *)
(***************************************************************************)
NoVelocity == [def |-> FALSE, n |-> 0, d |-> 1]

\* a velocity the detector supplies, v in tenths of a unit per second
DetectorVelocity(v) == [def |-> TRUE, n |-> v * v, d |-> 100]

VelIsNaN(v) == v.def /\ v.d = 0 /\ v.n = 0
VelIsInfinite(v) == v.def /\ v.d = 0 /\ v.n > 0

\* JavaScript truthiness of detection.velocity
VelTruthy(v) == v.def /\ ~VelIsNaN(v) /\ v.n > 0

\* velocity > p / q for the thresholds of the source (1 = 1/1, 1.5 = 3/2):
\* 10 sqrt(n) / d > p / q  iff  100 q^2 n > p^2 d^2.  n <= 20000, so the
\* comparison is decided without the product once d >= 2000.
VelGreater(v, p, q) ==
    /\ v.def
    /\ ~VelIsNaN(v)
    /\ \/ VelIsInfinite(v)
       \/ /\ v.d > 0
          /\ v.d < 2000
          /\ 100 * q * q * v.n > p * p * v.d * v.d

RECURSIVE FracLess(_, _, _, _)
\* a / b < c / d for b, d > 0, by continued fractions (no products)
FracLess(a, b, c, d) ==
    LET qa == a \div b
        qc == c \div d
        ra == a % b
        rc == c % d
    IN  IF qa # qc THEN qa < qc
        ELSE IF rc = 0 THEN FALSE
        ELSE IF ra = 0 THEN TRUE
        ELSE FracLess(d, rc, b, ra)

\* detection.velocity || 0
VelOrZero(v) == IF VelTruthy(v) THEN v ELSE [def |-> TRUE, n |-> 0, d |-> 1]

\* a < b on two velocities that are numbers (not NaN)
VelLess(a, b) ==
    IF VelIsInfinite(a) THEN FALSE
    ELSE IF VelIsInfinite(b) THEN TRUE
    ELSE FracLess(a.n, a.d * a.d, b.n, b.d * b.d)

RECURSIVE VelMax(_, _, _)
\* Math.max over vs[i..], starting from best
VelMax(vs, i, best) ==
    IF i > Len(vs) THEN best
    ELSE VelMax(vs, i + 1, IF VelLess(best, vs[i]) THEN vs[i] ELSE best)

(***************************************************************************)
(* Geometry / distance utility.                                            *)
(***************************************************************************)
\* Math.ceil(meters / (stepLength / 100)), meters given in centimetres and
\* not negative, the step length not zero (a zero step length gives
\* Infinity, which no integer stands for)
metersToSteps(cm, len) ==
    IF len > 0 THEN (cm + len - 1) \div len
    ELSE 0 - (cm \div (0 - len))

\* a Detection as the detectors build it (createRealisticDetection,
\* convertAPIDetections): steps from the distance, timestamp from the clock
MakeDetection(t, idx, ts, len) ==
    [id |-> <<t.label, ts, idx>>,
     label |-> t.label,
     confidence |-> t.confidence,
     distance |-> t.distance,
     steps |-> metersToSteps(t.distance, len),
     x |-> t.x,
     y |-> t.y,
     timestamp |-> ts,
     isMoving |-> t.isMoving,
     velocity |-> IF t.isMoving THEN DetectorVelocity(t.speed) ELSE DetectorVelocity(0)]

MakeDetections(ts, templates, len) ==
    [i \in 1..Len(templates) |-> MakeDetection(templates[i], i, ts, len)]

(***************************************************************************)
(* Stage filters and tracker.                                              *)
(***************************************************************************)
ConfidenceFilter(dets) ==
    SelectSeq(dets, LAMBDA d : d.confidence >= MIN_CONFIDENCE)

filterCenterFOV(dets) ==
    SelectSeq(dets, LAMBDA d : Abs(d.x - 50) <= CENTER_FOV_THRESHOLD)

\* `${detection.label}_${Math.round(detection.x * 10)}`
\* variant: one history per label
trackingKeyByLabel(d) == <<d.label, 0>>

trackingKey(d) == <<d.label, (d.x + 5) \div 10>>

\* this.objectTracker.get(key), [] when the key is new
HistoryOf(tracker, key) == IF key \in DOMAIN tracker THEN tracker[key] ELSE <<>>

\* variant: past the size the entry before the new one is dropped
ShiftYoungest(h) ==
    IF Len(h) > TRACKING_HISTORY_SIZE
    THEN Append(SubSeq(h, 1, Len(h) - 2), h[Len(h)])
    ELSE h

\* history.push(detection) was done by the caller; history.shift() past the size
Shift(h) == IF Len(h) > TRACKING_HISTORY_SIZE THEN Tail(h) ELSE h

\* the square of the movement between the last two entries of a history
Movement2(prev, curr) ==
    (curr.x - prev.x) * (curr.x - prev.x) + (curr.y - prev.y) * (curr.y - prev.y)

\* the detection after the history.length >= 2 branch
Mutated(d, h) ==
    IF Len(h) >= 2
    THEN [d EXCEPT !.isMoving = Movement2(h[Len(h) - 1], h[Len(h)])
                                    > MOVEMENT_THRESHOLD * MOVEMENT_THRESHOLD,
                   !.velocity = [def |-> TRUE, n |-> Movement2(h[Len(h) - 1], h[Len(h)]),
                                 d |-> h[Len(h)].timestamp - h[Len(h) - 1].timestamp]]
    ELSE d

\* history holds the detection object itself, so it sees the mutation
TrackStore(tracker, key, h, d2) ==
    [tracker |-> MapSet(tracker, key, [h EXCEPT ![Len(h)] = d2]), det |-> d2]

TrackWith(tracker, d, key, h) == TrackStore(tracker, key, h, Mutated(d, h))

\* one iteration of the forEach of updateObjectTracking: the tracker after
\* it and the detection as the iteration leaves it
TrackOne(tracker, d) ==
    TrackWith(tracker, d, trackingKey(d),
              Shift(Append(HistoryOf(tracker, trackingKey(d)), d)))

RECURSIVE TrackAll(_, _, _, _)
TrackAll(tracker, dets, i, acc) ==
    IF i > Len(dets) THEN [tracker |-> tracker, dets |-> acc]
    ELSE LET r == TrackOne(tracker, dets[i])
         IN  TrackAll(r.tracker, dets, i + 1, Append(acc, r.det))

\* variant: a key whose entries all aged out keeps an empty history
cleanTrackerKeepingKeys(tracker, t) ==
    [k \in DOMAIN tracker |->
        SelectSeq(tracker[k], LAMBDA d : t - d.timestamp < TRACK_MAX_AGE)]

cleanTracker(tracker, t) ==
    LET kept(k) == SelectSeq(tracker[k], LAMBDA d : t - d.timestamp < TRACK_MAX_AGE)
        keys == {k \in DOMAIN tracker : Len(kept(k)) > 0}
    IN  [k \in keys |-> kept(k)]

\* variant: cooldown entries are evicted as soon as they are a second old
cleanAlertsAfterOneSecond(la, t) ==
    MapRestrict(la, {k \in DOMAIN la : ~(t - la[k] > 1000)})

cleanAlerts(la, t) ==
    MapRestrict(la, {k \in DOMAIN la : ~(t - la[k] > ALERT_MAX_AGE)})

\* updateObjectTracking: the forEach, then cleanOldTrackingData
updateObjectTracking(tracker, la, dets, t) ==
    LET r == TrackAll(tracker, dets, 1, <<>>)
    IN  [tracker |-> cleanTracker(r.tracker, t),
         lastAlerts |-> cleanAlerts(la, t),
         dets |-> r.dets]

\* variant: near objects have to earn their place like the others
ProximityWithoutNearRule(d) ==
    \/ d.isMoving /\ d.steps <= 6
    \/ d.label \in CRITICAL_OBJECTS /\ d.steps <= 4
    \/ d.confidence > 80 /\ d.steps <= 5

\* variant: the proximity filter keeps every detection
ProximityKeepsAll(d) == d.steps = d.steps

ProximityKeeps(d) ==
    \/ d.steps <= 2
    \/ d.isMoving /\ d.steps <= 6
    \/ d.label \in CRITICAL_OBJECTS /\ d.steps <= 4
    \/ d.confidence > 80 /\ d.steps <= 5

filterByMovementAndProximity(dets) == SelectSeq(dets, ProximityKeeps)

(***************************************************************************)
(* Clusterer.                                                              *)
(***************************************************************************)
\* variant: neighbours one step apart are merged as well
MergeWithinOneStep(a, b) ==
    /\ Abs(a.steps - b.steps) <= 1
    /\ Abs(a.x - b.x) <= 20

MergePredicate(a, b) ==
    /\ Abs(a.steps - b.steps) * 10 <= CLUSTER_DISTANCE_THRESHOLD
    /\ Abs(a.x - b.x) <= 20

RECURSIVE AbsorbUnmarked(_, _, _, _, _)
\* variant: an absorbed detection is not marked as processed
AbsorbUnmarked(dets, seed, j, cluster, processed) ==
    IF j > Len(dets) THEN [cluster |-> cluster, processed |-> processed]
    ELSE IF dets[j].id \in processed THEN AbsorbUnmarked(dets, seed, j + 1, cluster, processed)
    ELSE IF MergePredicate(seed, dets[j])
         THEN AbsorbUnmarked(dets, seed, j + 1, Append(cluster, dets[j]), processed)
         ELSE AbsorbUnmarked(dets, seed, j + 1, cluster, processed)

RECURSIVE Absorb(_, _, _, _, _)
\* the inner loop of clusterNearbyObjects: the cluster of seed and the
\* processed ids after it
Absorb(dets, seed, j, cluster, processed) ==
    IF j > Len(dets) THEN [cluster |-> cluster, processed |-> processed]
    ELSE IF dets[j].id \in processed THEN Absorb(dets, seed, j + 1, cluster, processed)
    ELSE IF MergePredicate(seed, dets[j])
         THEN Absorb(dets, seed, j + 1, Append(cluster, dets[j]),
                     processed \cup {dets[j].id})
         ELSE Absorb(dets, seed, j + 1, cluster, processed)

RECURSIVE GreedyClusters(_, _, _, _)
\* the outer loop of clusterNearbyObjects
GreedyClusters(dets, i, clusters, processed) ==
    IF i > Len(dets) THEN clusters
    ELSE IF dets[i].id \in processed THEN GreedyClusters(dets, i + 1, clusters, processed)
    ELSE LET r == Absorb(dets, dets[i], 1, <<dets[i]>>, processed \cup {dets[i].id})
         IN  GreedyClusters(dets, i + 1, Append(clusters, r.cluster), r.processed)

RECURSIVE Closest(_, _, _)
\* cluster.reduce((prev, curr) => curr.steps < prev.steps ? curr : prev)
Closest(cluster, i, prev) ==
    IF i > Len(cluster) THEN prev
    ELSE Closest(cluster, i + 1, IF cluster[i].steps < prev.steps THEN cluster[i] ELSE prev)

RECURSIVE MaxConfidence(_, _, _)
MaxConfidence(cluster, i, best) ==
    IF i > Len(cluster) THEN best
    ELSE MaxConfidence(cluster, i + 1,
                       IF cluster[i].confidence > best THEN cluster[i].confidence ELSE best)

Plural(n) == IF n > 1 THEN "s" ELSE ""

generateClusterLabel(cluster) ==
    LET criticalCount == Cardinality({i \in DOMAIN cluster : cluster[i].label \in CRITICAL_OBJECTS})
        others == Len(cluster) - criticalCount
    IN  IF Len(cluster) = 2 THEN cluster[1].label \o " and " \o cluster[2].label
        ELSE IF criticalCount > 0
             THEN ToString(criticalCount) \o " critical object" \o Plural(criticalCount)
                  \o " and " \o ToString(others) \o " other" \o Plural(others)
        ELSE ToString(Len(cluster)) \o " objects"

ZeroVelocity == [def |-> TRUE, n |-> 0, d |-> 1]

Representative(cluster, t) ==
    IF Len(cluster) = 1 THEN cluster[1]
    ELSE LET closest == Closest(cluster, 2, cluster[1])
             hasMoving == \E i \in DOMAIN cluster : cluster[i].isMoving
             vs == [i \in DOMAIN cluster |-> VelOrZero(cluster[i].velocity)]
         IN  [closest EXCEPT
                 !.id = <<"cluster", Len(cluster), t>>,
                 !.label = generateClusterLabel(cluster),
                 !.confidence = MaxConfidence(cluster, 1, 0),
                 !.isMoving = hasMoving,
                 !.velocity = IF hasMoving THEN VelMax(vs, 2, vs[1]) ELSE ZeroVelocity]

\* the clusters behind the output of clusterNearbyObjects; a list of at most
\* one detection is returned as it is
ClustersOf(dets) ==
    IF Len(dets) <= 1 THEN [i \in DOMAIN dets |-> <<dets[i]>>]
    ELSE GreedyClusters(dets, 1, <<>>, {})

clusterNearbyObjects(dets, t) ==
    IF Len(dets) <= 1 THEN dets
    ELSE LET clusters == GreedyClusters(dets, 1, <<>>, {})
         IN  [c \in DOMAIN clusters |-> Representative(clusters[c], t)]

(***************************************************************************)
(* Temporal cooldown filter.                                               *)
(***************************************************************************)
\* this.lastAlerts.get(objectType) || 0
LastAlertTime(la, label) == IF label \in DOMAIN la THEN la[label] ELSE 0

\* variant: the cooldown is consulted before the distance
CooldownBeforeDistance(d, la, tracker, t) ==
    IF t - LastAlertTime(la, d.label) < ALERT_COOLDOWN_MS
    THEN /\ trackingKey(d) \in DOMAIN tracker
         /\ Len(tracker[trackingKey(d)]) >= 2
         /\ Abs(tracker[trackingKey(d)][1].x
                - tracker[trackingKey(d)][Len(tracker[trackingKey(d)])].x)
                > POSITION_CHANGE_THRESHOLD
    ELSE TRUE

\* variant: the cooldown still holds at exactly ALERT_COOLDOWN_MS
CooldownInclusive(d, la, tracker, t) ==
    IF d.steps <= 1 THEN TRUE
    ELSE IF t - LastAlertTime(la, d.label) <= ALERT_COOLDOWN_MS
         THEN /\ trackingKey(d) \in DOMAIN tracker
              /\ Len(tracker[trackingKey(d)]) >= 2
              /\ Abs(tracker[trackingKey(d)][1].x
                     - tracker[trackingKey(d)][Len(tracker[trackingKey(d)])].x)
                     > POSITION_CHANGE_THRESHOLD
    ELSE TRUE

\* the predicate of the filter of applyTemporalFiltering
\* variant: the cooldown applies to very close objects as well
TemporalKeepsAfterCooldown(d, la, tracker, t) ==
    \/ ~(t - LastAlertTime(la, d.label) < ALERT_COOLDOWN_MS)
    \/ /\ trackingKey(d) \in DOMAIN tracker
       /\ Len(tracker[trackingKey(d)]) >= 2
       /\ Abs(tracker[trackingKey(d)][1].x - tracker[trackingKey(d)][Len(tracker[trackingKey(d)])].x)
              > POSITION_CHANGE_THRESHOLD

TemporalKeeps(d, la, tracker, t) ==
    LET timeSinceLastAlert == t - LastAlertTime(la, d.label)
        key == trackingKey(d)
    IN  IF d.steps <= 1 THEN TRUE
        ELSE IF timeSinceLastAlert < ALERT_COOLDOWN_MS
             THEN IF key \in DOMAIN tracker /\ Len(tracker[key]) >= 2
                  THEN LET history == tracker[key]
                       IN  Abs(history[1].x - history[Len(history)].x)
                               > POSITION_CHANGE_THRESHOLD
                  ELSE FALSE
        ELSE TRUE

applyTemporalFiltering(dets, la, tracker, t) ==
    SelectSeq(dets, LAMBDA d : TemporalKeeps(d, la, tracker, t))

(***************************************************************************)
(* Priority scorer and alert synthesizer.                                  *)
(***************************************************************************)
\* variant: far objects lose points without a floor
PriorityWithoutFloor(d) ==
    (IF d.steps <= 1 THEN 50
     ELSE IF d.steps <= 2 THEN 30
     ELSE IF d.steps <= 4 THEN 15
     ELSE 10 - d.steps) * 100
    + (100 - Abs(d.x - 50)) * 10
    + (IF d.label \in CRITICAL_OBJECTS THEN 20
       ELSE IF d.label \in WARNING_OBJECTS THEN 10
       ELSE IF d.label \in INFO_OBJECTS THEN 5
       ELSE 0) * 100
    + (IF d.isMoving
       THEN 15 + (IF VelTruthy(d.velocity) /\ VelGreater(d.velocity, 1, 1) THEN 10 ELSE 0)
       ELSE 0) * 100
    + d.confidence * 8

calculatePriority(d) ==
    LET distanceTerm == IF d.steps <= 1 THEN 50
                        ELSE IF d.steps <= 2 THEN 30
                        ELSE IF d.steps <= 4 THEN 15
                        ELSE IF 10 - d.steps > 0 THEN 10 - d.steps ELSE 0
        center == (100 - Abs(d.x - 50)) * 10
        category == IF d.label \in CRITICAL_OBJECTS THEN 20
                    ELSE IF d.label \in WARNING_OBJECTS THEN 10
                    ELSE IF d.label \in INFO_OBJECTS THEN 5
                    ELSE 0
        movement == IF d.isMoving
                    THEN 15 + (IF VelTruthy(d.velocity) /\ VelGreater(d.velocity, 1, 1)
                               THEN 10 ELSE 0)
                    ELSE 0
    IN  distanceTerm * 100 + center + category * 100 + movement * 100 + d.confidence * 8

\* variant: movement does not raise the class
AlertTypeByDistance(d) ==
    IF d.steps <= 1 THEN "urgent"
    ELSE IF d.steps <= 3 \/ d.label \in CRITICAL_OBJECTS THEN "warning"
    ELSE "info"

determineAlertType(d) ==
    IF d.steps <= 1 \/ (d.isMoving /\ d.steps <= 2) THEN "urgent"
    ELSE IF d.steps <= 3 \/ d.label \in CRITICAL_OBJECTS THEN "warning"
    ELSE "info"

\* variant: the direction is told before the movement
MessageDirectionFirst(d) ==
    (IF d.steps = 1 THEN "Stop! "
     ELSE IF d.steps = 2 /\ d.isMoving THEN "Caution! " ELSE "")
    \o d.label \o " ahead in " \o ToString(d.steps) \o " "
    \o (IF d.steps = 1 THEN "step" ELSE "steps")
    \o (IF d.x < 30 THEN " to your left" ELSE IF d.x > 70 THEN " to your right" ELSE "")
    \o (IF d.isMoving
        THEN IF VelTruthy(d.velocity) /\ VelGreater(d.velocity, 3, 2)
             THEN ", moving fast" ELSE ", moving"
        ELSE "")

generateContextualMessage(d) ==
    LET prefix == IF d.steps = 1 THEN "Stop! "
                  ELSE IF d.steps = 2 /\ d.isMoving THEN "Caution! "
                  ELSE ""
        main == d.label \o " ahead in " \o ToString(d.steps) \o " "
                \o (IF d.steps = 1 THEN "step" ELSE "steps")
        moving == IF d.isMoving
                  THEN IF VelTruthy(d.velocity) /\ VelGreater(d.velocity, 3, 2)
                       THEN ", moving fast" ELSE ", moving"
                  ELSE ""
        direction == IF d.x < 30 THEN " to your left"
                     ELSE IF d.x > 70 THEN " to your right"
                     ELSE ""
    IN  prefix \o main \o moving \o direction

createSmartAlert(d, t) ==
    [detection |-> d,
     priority |-> calculatePriority(d),
     shouldAnnounce |-> d.steps <= 8,
     shouldVibrate |-> d.steps <= 2 /\ ~PlatformIsWeb,
     message |-> generateContextualMessage(d),
     alertType |-> determineAlertType(d),
     suppressUntil |-> IF d.steps > 2 THEN [def |-> TRUE, at |-> t + ALERT_COOLDOWN_MS]
                       ELSE [def |-> FALSE, at |-> 0]]

\* variant: among detections of maximal priority the one with the greatest
\* id suffix is taken
TopByIdSuffix(dets) ==
    CHOOSE i \in DOMAIN dets :
        /\ \A j \in DOMAIN dets : calculatePriority(dets[j]) <= calculatePriority(dets[i])
        /\ \A j \in DOMAIN dets :
              calculatePriority(dets[j]) = calculatePriority(dets[i])
                  => dets[j].id[3] <= dets[i].id[3]

\* variant: among detections of maximal priority the last one is taken
LastOfMaximal(dets) ==
    CHOOSE i \in DOMAIN dets :
        /\ \A j \in DOMAIN dets : calculatePriority(dets[j]) <= calculatePriority(dets[i])
        /\ \A j \in (i + 1)..Len(dets) : calculatePriority(dets[j]) < calculatePriority(dets[i])

\* prioritized[0] of the stable sort by descending priority: the first
\* detection of maximal priority
TopIndex(dets) ==
    CHOOSE i \in DOMAIN dets :
        /\ \A j \in DOMAIN dets : calculatePriority(dets[j]) <= calculatePriority(dets[i])
        /\ \A j \in 1..(i - 1) : calculatePriority(dets[j]) < calculatePriority(dets[i])

\* variant: one alert for every surviving detection
AlertEverySurvivor(dets, la, t) ==
    IF Len(dets) = 0 THEN [alerts |-> <<>>, lastAlerts |-> la]
    ELSE [alerts |-> [i \in DOMAIN dets |-> createSmartAlert(dets[i], t)],
          lastAlerts |-> MapSet(la, dets[TopIndex(dets)].label, t)]

\* variant: a tick without survivors re-arms every cooldown
RearmOnEmpty(dets, la, t) ==
    IF Len(dets) = 0 THEN [alerts |-> <<>>, lastAlerts |-> [k \in DOMAIN la |-> t]]
    ELSE [alerts |-> <<createSmartAlert(dets[TopIndex(dets)], t)>>,
          lastAlerts |-> MapSet(la, dets[TopIndex(dets)].label, t)]

\* variant: the cooldown of every survivor is re-armed, alerted or not
StampEverySurvivor(dets, la, t) ==
    IF Len(dets) = 0 THEN [alerts |-> <<>>, lastAlerts |-> la]
    ELSE [alerts |-> <<createSmartAlert(dets[TopIndex(dets)], t)>>,
          lastAlerts |-> [k \in DOMAIN la \cup {dets[i].label : i \in DOMAIN dets} |-> 
                             IF k \in {dets[i].label : i \in DOMAIN dets} THEN t ELSE la[k]]]

\* generateSmartAlerts: the alerts returned and lastAlerts after the call
generateSmartAlerts(dets, la, t) ==
    IF Len(dets) = 0 THEN [alerts |-> <<>>, lastAlerts |-> la]
    ELSE LET top == dets[TopIndex(dets)]
         IN  [alerts |-> <<createSmartAlert(top, t)>>,
              lastAlerts |-> MapSet(la, top.label, t)]

(***************************************************************************)
(* applyDetectionPipeline followed by generateSmartAlerts.                 *)
(***************************************************************************)
\* steps 5 and 6 of applyDetectionPipeline, every stage list kept
PipelineCluster(raw, centered, tr, proximate, clustered, t) ==
    [tracker |-> tr.tracker, lastAlerts |-> tr.lastAlerts,
     raw |-> raw, centered |-> centered, tracked |-> tr.dets,
     proximate |-> proximate, clustered |-> clustered,
     filtered |-> applyTemporalFiltering(clustered, tr.lastAlerts, tr.tracker, t)]

\* steps 3 and 4
PipelineTrack(raw, centered, tr, proximate, t) ==
    PipelineCluster(raw, centered, tr, proximate, clusterNearbyObjects(proximate, t), t)

\* step 2
PipelineCenter(raw, centered, tr, t) ==
    PipelineTrack(raw, centered, tr, filterByMovementAndProximity(tr.dets), t)

PipelineFrom(raw, centered, tracker, la, t) ==
    PipelineCenter(raw, centered, updateObjectTracking(tracker, la, centered, t), t)

\* the steps of applyDetectionPipeline, in order
applyDetectionPipeline(raw, tracker, la, t) ==
    PipelineFrom(raw, filterCenterFOV(ConfidenceFilter(raw)), tracker, la, t)

\* the return value of processDetections and the service state after it
TickResult(p, g) ==
    [tracker |-> p.tracker, lastAlerts |-> g.lastAlerts, alerts |-> g.alerts,
     stage |-> [raw |-> p.raw, centered |-> p.centered, tracked |-> p.tracked,
                proximate |-> p.proximate, clustered |-> p.clustered,
                filtered |-> p.filtered, cooldowns |-> p.lastAlerts]]

Synthesize(p, t) == TickResult(p, generateSmartAlerts(p.filtered, p.lastAlerts, t))

\* processDetections after the detector returned raw
RunPipeline(raw, tracker, la, t) ==
    Synthesize(applyDetectionPipeline(raw, tracker, la, t), t)

(***************************************************************************)
(* Bounds and detector outputs.                                            *)
(***************************************************************************)
\* generateRealisticDetections draws 0, 1 or 2 objects
MAX_SIMULATED_OBJECTS == 2
MaxTicks == 3
MaxToggles == 2
LongTicks == 18

\* what createRealisticDetection draws: x in [0.3, 0.7), y in [0.2, 0.8),
\* a distance of 0.5 m to 7 m, a confidence of 0.6 to 1
Tpl(label, distance, x) ==
    [label |-> label, distance |-> distance, x |-> x, y |-> 50,
     confidence |-> 85, isMoving |-> FALSE, speed |-> 0]

\* a person one step ahead, a chair three steps ahead at two positions that
\* lie in different tracking bins and more than POSITION_CHANGE_THRESHOLD apart
SpecTemplates == {Tpl("person", 50, 50), Tpl("chair", 150, 32), Tpl("chair", 150, 54)}

LongTemplates == {Tpl("chair", 150, 54)}

ListsOf(T, maxLen) == UNION {[1..n -> T] : n \in 0..maxLen}

NoStage == [raw |-> <<>>, centered |-> <<>>, tracked |-> <<>>, proximate |-> <<>>,
            clustered |-> <<>>, filtered |-> <<>>, cooldowns |-> EmptyMap]

TimerOff == [on |-> FALSE, due |-> 0]

\* setInterval periods of CameraScreen.startDetection
DETECTION_INTERVAL_MS == 1200
CLEANUP_INTERVAL_MS == 20000

\* how long after the last event the user presses a button
UserDelays == {300}

\* Date.now() is far from 0, the time a label without an entry in lastAlerts
\* counts as alerted at
InitService ==
    /\ now = 100000
    /\ stepLength = DEFAULT_STEP_LENGTH
    /\ lastAlerts = EmptyMap
    /\ objectTracker = EmptyMap
    /\ stage = NoStage
    /\ alerts = <<>>
    /\ outcome = [kind |-> "init"]
    /\ ticks = 0
    /\ emitted = EmptyMap

\* defaultSettings of useSettings, announcementDelay in ms; isLoading is the
\* hook's second state
defaultSettings ==
    [stepLength |-> 65, audioEnabled |-> TRUE, hapticEnabled |-> TRUE,
     announcementDelay |-> 4000, isLoading |-> TRUE]

\* CameraScreen at mount.  closure is the settings object the running
\* interval callback has closed over, spoken and vibrated tell what the last
\* callback did with its alert
InitScreen ==
    /\ screen = [isActive |-> FALSE, detection |-> TimerOff, cleanup |-> TimerOff,
                 currentAlert |-> <<>>, toggles |-> 0,
                 closure |-> defaultSettings, lastAnnouncementTime |-> 0,
                 spoken |-> FALSE, vibrated |-> FALSE]
    /\ settings = defaultSettings

IdleApi == [backend |-> "ai"]
IdleWeb == [mounted |-> FALSE]
IdleProbe == [phase |-> "none"]

Init ==
    /\ InitService
    /\ InitScreen
    /\ api = IdleApi
    /\ web = IdleWeb
    /\ probe = IdleProbe

\* the time of the next timer callback, given the timers that are set
TimerIsNext(t, other) == t.on /\ (other.on => t.due <= other.due)

\* the history of emitted alerts after a tick
Emit(em, as, t) ==
    IF Len(as) = 0 THEN em
    ELSE MapSet(em, as[1].detection.label, [at |-> t, x |-> as[1].detection.x])

\* clearTrackingData
clearTrackingData ==
    /\ objectTracker' = EmptyMap
    /\ lastAlerts' = EmptyMap

\* startDetection of CameraScreen: both intervals are set
startDetection(t) ==
    screen' = [screen EXCEPT !.isActive = TRUE,
                             !.closure = settings,
                             !.detection = [on |-> TRUE, due |-> t + DETECTION_INTERVAL_MS],
                             !.cleanup = [on |-> TRUE, due |-> t + CLEANUP_INTERVAL_MS],
                             !.toggles = @ + 1]

\* stopDetection of CameraScreen: both intervals are cleared, the alert hidden
stopDetection ==
    screen' = [screen EXCEPT !.isActive = FALSE,
                             !.detection = TimerOff,
                             !.cleanup = TimerOff,
                             !.currentAlert = <<>>,
                             !.toggles = @ + 1]

\* toggleCamera and the effect on [isActive] it triggers
ToggleCameraAfter(delays, maxToggles) ==
    /\ api.backend = "ai"
    /\ screen.toggles < maxToggles
    /\ \E d \in delays :
        /\ screen.detection.on => now + d <= screen.detection.due
        /\ screen.cleanup.on => now + d <= screen.cleanup.due
        /\ now' = now + d
        /\ IF screen.isActive THEN stopDetection ELSE startDetection(now + d)
    /\ outcome' = [kind |-> IF screen.isActive THEN "stopped" ELSE "started"]
    /\ UNCHANGED <<svcVars, stage, alerts, ticks, emitted, api, web, probe, settings>>

\* what processDetections of the screen does with the alerts it awaited:
\* the top alert is shown, spoken if the closure's settings allow it and
\* the announcement delay has passed or the alert is urgent, and felt if
\* the closure's settings allow it
ShowAlert(scr, as, t) ==
    IF Len(as) = 0
    THEN [scr EXCEPT !.currentAlert = <<>>, !.spoken = FALSE, !.vibrated = FALSE]
    ELSE [scr EXCEPT
            !.currentAlert = as,
            !.spoken = /\ as[1].shouldAnnounce
                       /\ \/ t - scr.lastAnnouncementTime > scr.closure.announcementDelay
                          \/ as[1].alertType = "urgent"
                       /\ scr.closure.audioEnabled,
            !.lastAnnouncementTime =
                IF /\ as[1].shouldAnnounce
                   /\ \/ t - scr.lastAnnouncementTime > scr.closure.announcementDelay
                      \/ as[1].alertType = "urgent"
                   /\ scr.closure.audioEnabled
                THEN t ELSE @,
            !.vibrated = /\ as[1].shouldVibrate
                         /\ scr.closure.hapticEnabled
                         /\ ~PlatformIsWeb]

\* one callback of the detection interval: processDetections of the screen,
\* which awaits AIDetectionService.processDetections and shows its alert
DetectionTickWith(templates, maxLen, maxTicks) ==
    /\ api.backend = "ai"
    /\ TimerIsNext(screen.detection, screen.cleanup)
    /\ ticks < maxTicks
    /\ \E in \in ListsOf(templates, maxLen) :
       \E r \in {RunPipeline(MakeDetections(screen.detection.due, in, stepLength),
                              objectTracker, lastAlerts, screen.detection.due)} :
            /\ now' = screen.detection.due
            /\ objectTracker' = r.tracker
            /\ lastAlerts' = r.lastAlerts
            /\ stage' = r.stage
            /\ alerts' = r.alerts
            /\ emitted' = Emit(emitted, r.alerts, screen.detection.due)
            /\ screen' = [ShowAlert(screen, r.alerts, screen.detection.due)
                              EXCEPT !.detection.due = @ + DETECTION_INTERVAL_MS]
    /\ outcome' = [kind |-> "ok"]
    /\ ticks' = ticks + 1
    /\ UNCHANGED <<stepLength, api, web, probe, settings>>

\* variant: the catch also resets the service
CaughtClears(tracker, la) ==
    [tracker |-> EmptyMap, lastAlerts |-> EmptyMap, alerts |-> <<>>, stage |-> NoStage]

\* the catch of processDetections: [] is returned, the service is as it was
CaughtResult(tracker, la) ==
    [tracker |-> tracker, lastAlerts |-> la, alerts |-> <<>>, stage |-> NoStage]

\* a callback of the detection interval in which runAIDetection rejects:
\* the catch of processDetections returns []
DetectorThrowsWith(maxTicks) ==
    /\ api.backend = "ai"
    /\ TimerIsNext(screen.detection, screen.cleanup)
    /\ ticks < maxTicks
    /\ now' = screen.detection.due
    /\ \E r \in {CaughtResult(objectTracker, lastAlerts)} :
        /\ objectTracker' = r.tracker
        /\ lastAlerts' = r.lastAlerts
        /\ alerts' = r.alerts
        /\ stage' = r.stage
        /\ screen' = [ShowAlert(screen, r.alerts, screen.detection.due)
                          EXCEPT !.detection.due = @ + DETECTION_INTERVAL_MS]
    /\ outcome' = [kind |-> "caught"]
    /\ ticks' = ticks + 1
    /\ UNCHANGED <<stepLength, emitted, api, web, probe, settings>>

\* one callback of the cleanup interval
CleanupTick ==
    /\ api.backend = "ai"
    /\ TimerIsNext(screen.cleanup, screen.detection)
    /\ ~(screen.detection.on /\ screen.detection.due = screen.cleanup.due)
    /\ now' = screen.cleanup.due
    /\ clearTrackingData
    /\ screen' = [screen EXCEPT !.cleanup.due = screen.cleanup.due + CLEANUP_INTERVAL_MS]
    /\ outcome' = [kind |-> "cleanup"]
    /\ UNCHANGED <<stepLength, stage, alerts, ticks, emitted, api, web, probe, settings>>

ToggleCameraWith(maxToggles) == ToggleCameraAfter(UserDelays, maxToggles)

ToggleCamera == ToggleCameraWith(MaxToggles)
DetectionTick == DetectionTickWith(SpecTemplates, MAX_SIMULATED_OBJECTS, MaxTicks)
DetectorThrows == DetectorThrowsWith(MaxTicks)

Next ==
    \/ ToggleCamera
    \/ DetectionTick
    \/ DetectorThrows

Spec == Init /\ [][Next]_vars

(***************************************************************************)
(* A long run of one started screen, with a single kind of detection.      *)
(***************************************************************************)
LongInputs == {<<>>} \cup {<<t>> : t \in LongTemplates}

StartOnce == ToggleCameraWith(1)

LongTick ==
    /\ api.backend = "ai"
    /\ TimerIsNext(screen.detection, screen.cleanup)
    /\ ticks < LongTicks
    /\ \E in \in LongInputs :
       \E r \in {RunPipeline(MakeDetections(screen.detection.due, in, stepLength),
                              objectTracker, lastAlerts, screen.detection.due)} :
            /\ now' = screen.detection.due
            /\ objectTracker' = r.tracker
            /\ lastAlerts' = r.lastAlerts
            /\ stage' = r.stage
            /\ alerts' = r.alerts
            /\ emitted' = Emit(emitted, r.alerts, screen.detection.due)
            /\ screen' = [ShowAlert(screen, r.alerts, screen.detection.due)
                              EXCEPT !.detection.due = @ + DETECTION_INTERVAL_MS]
    /\ outcome' = [kind |-> "ok"]
    /\ ticks' = ticks + 1
    /\ UNCHANGED <<stepLength, api, web, probe, settings>>

NextLong ==
    \/ StartOnce
    \/ LongTick
    \/ CleanupTick

SpecLongRun == Init /\ [][NextLong]_vars

\* the step is a tick of the pipeline
IsTick == ticks' = ticks + 1

(***************************************************************************)
(* Claims on the screen with AIDetectionService.                           *)
(***************************************************************************)
\* C1: a tick emits at most one alert, whatever the number of detections
\* that survive the filters.
C1_AtMostOneAlertPerTick == Len(alerts) <= 1

C1_Witness == Len(stage.filtered) >= 2 /\ Len(alerts) = 1

\* C4: two alerts for the same label are at least ALERT_COOLDOWN_MS apart,
\* unless the later detection is within one step or at a position more than
\* POSITION_CHANGE_THRESHOLD away from the earlier one - whatever the
\* interleaving of detection ticks, garbage collection and the cleanup timer.
C4_SameLabelAlertsCooldownApart ==
    [][(IsTick /\ Len(alerts') = 1 /\ alerts'[1].detection.label \in DOMAIN emitted)
        => \/ now' - emitted[alerts'[1].detection.label].at >= ALERT_COOLDOWN_MS
           \/ alerts'[1].detection.steps <= 1
           \/ Abs(alerts'[1].detection.x - emitted[alerts'[1].detection.label].x)
                > POSITION_CHANGE_THRESHOLD]_vars

\* C5: within the cooldown of its label, a detection whose x differs from
\* the alerted detection's x by more than POSITION_CHANGE_THRESHOLD passes
\* the temporal filter.
C5_NewPositionPassesCooldown ==
    [][(IsTick /\ outcome'.kind = "ok")
        => \A i \in DOMAIN stage'.clustered :
              (/\ stage'.clustered[i].label \in DOMAIN emitted
               /\ Abs(stage'.clustered[i].x - emitted[stage'.clustered[i].label].x)
                    > POSITION_CHANGE_THRESHOLD)
              => stage'.clustered[i] \in Range(stage'.filtered)]_vars

\* C7: once the screen has been stopped, the tracking history and the
\* cooldown table are empty.
C7_StopEmptiesTrackingState ==
    (~screen.isActive /\ screen.toggles > 0)
        => (objectTracker = EmptyMap /\ lastAlerts = EmptyMap)

\* C10: a tick whose detection list is empty emits no alert, raises no
\* error, and adds or changes no entry of the tracking history or of the
\* cooldown table; entries can only disappear.
C10_EmptyTickAddsNothing ==
    [][(IsTick /\ outcome'.kind = "ok" /\ stage'.raw = <<>>)
        => /\ alerts' = <<>>
           /\ DOMAIN lastAlerts' \subseteq DOMAIN lastAlerts
           /\ \A k \in DOMAIN lastAlerts' : lastAlerts'[k] = lastAlerts[k]
           /\ DOMAIN objectTracker' \subseteq DOMAIN objectTracker
           /\ \A k \in DOMAIN objectTracker' :
                 Range(objectTracker'[k]) \subseteq Range(objectTracker[k])]_vars

C10_Witness ==
    /\ outcome.kind = "ok"
    /\ stage.raw = <<>>
    /\ ticks >= 2
    /\ lastAlerts # EmptyMap
    /\ objectTracker # EmptyMap

(***************************************************************************)
(* The temporal filters on their own: the filter of AIDetectionService     *)
(* and shouldSuppressAlert of the earlier DetectionService, applied to one *)
(* detection under a drawn cooldown table, history and clock.              *)
(***************************************************************************)
LEGACY_ALERT_COOLDOWN_MS == 3000
LEGACY_POSITION_CHANGE_THRESHOLD == 10

\* shouldSuppressAlert of DetectionService
shouldSuppressAlert(d, timeSinceLastAlert, lastPositions) ==
    IF d.steps <= 1 THEN FALSE
    ELSE IF timeSinceLastAlert < LEGACY_ALERT_COOLDOWN_MS THEN TRUE
    ELSE IF d.id \in DOMAIN lastPositions
         THEN (d.x - lastPositions[d.id].x) * (d.x - lastPositions[d.id].x)
              + (d.y - lastPositions[d.id].y) * (d.y - lastPositions[d.id].y)
              < LEGACY_POSITION_CHANGE_THRESHOLD * LEGACY_POSITION_CHANGE_THRESHOLD
         ELSE FALSE

\* a chair at one, two and three steps
FilterTemplates == {Tpl("chair", dist, 54) : dist \in {50, 100, 150}}

\* the clock, around both cooldowns after an alert at 100000
FilterNows == {100000 + dt : dt \in {2999, 3000, 3001, 3999, 4000, 4001}}

FilterLastAlerts == {EmptyMap, [l \in {"chair"} |-> 100000]}

\* the chair tracked never, once, or twice in the bin of the detection
FilterTrackers ==
    {EmptyMap,
     [k \in {<<"chair", 5>>} |-> <<MakeDetection(Tpl("chair", 150, 46), 1, 100000,
                                                 DEFAULT_STEP_LENGTH)>>],
     [k \in {<<"chair", 5>>} |-> <<MakeDetection(Tpl("chair", 150, 54), 1, 98800,
                                                 DEFAULT_STEP_LENGTH),
                                   MakeDetection(Tpl("chair", 150, 46), 1, 100000,
                                                 DEFAULT_STEP_LENGTH)>>]}

InitFilter ==
    /\ now \in FilterNows
    /\ stepLength = DEFAULT_STEP_LENGTH
    /\ lastAlerts \in FilterLastAlerts
    /\ objectTracker \in FilterTrackers
    /\ stage = NoStage
    /\ alerts = <<>>
    /\ outcome = [kind |-> "init"]
    /\ ticks = 0
    /\ emitted = EmptyMap
    /\ InitScreen
    /\ api = IdleApi
    /\ web = IdleWeb
    /\ \E tpl \in FilterTemplates, known \in BOOLEAN :
        probe = [phase |-> "drawn",
                 det |-> MakeDetection(tpl, 1, now, DEFAULT_STEP_LENGTH),
                 lastPositions |-> IF known
                                   THEN [i \in {<<tpl.label, now, 1>>} |-> [x |-> 50, y |-> 50]]
                                   ELSE EmptyMap,
                 kept |-> FALSE,
                 suppressed |-> FALSE]

\* steps 3 and 6 of applyDetectionPipeline on the drawn detection
ApplyTemporalFilter ==
    /\ probe.phase = "drawn"
    /\ \E tr \in {updateObjectTracking(objectTracker, lastAlerts, <<probe.det>>, now)} :
        /\ objectTracker' = tr.tracker
        /\ lastAlerts' = tr.lastAlerts
        /\ probe' = [probe EXCEPT
                        !.phase = "current",
                        !.kept = Len(applyTemporalFiltering(tr.dets, tr.lastAlerts,
                                                            tr.tracker, now)) = 1]
    /\ UNCHANGED <<now, stepLength, stage, alerts, outcome, screen, ticks, emitted, api, web, settings>>

\* the suppression test of applyAlertFiltering on the drawn detection
ApplyLegacyFilter ==
    /\ probe.phase = "drawn"
    /\ probe' = [probe EXCEPT
                    !.phase = "legacy",
                    !.suppressed = shouldSuppressAlert(
                                       probe.det,
                                       now - LastAlertTime(lastAlerts, probe.det.label),
                                       probe.lastPositions)]
    /\ UNCHANGED <<now, svcVars, stage, alerts, outcome, screen, ticks, emitted, api, web, settings>>

NextFilter ==
    \/ ApplyTemporalFilter
    \/ ApplyLegacyFilter

SpecFilter == InitFilter /\ [][NextFilter]_vars

\* C2: a detection within one step is never suppressed by the temporal
\* filter, neither by applyTemporalFiltering nor by shouldSuppressAlert,
\* whatever the cooldown table and the history hold.
C2_WithinOneStepNeverSuppressed ==
    /\ (probe.phase = "current" /\ probe.det.steps <= 1) => probe.kept
    /\ (probe.phase = "legacy" /\ probe.det.steps <= 1) => ~probe.suppressed

C2_Witness ==
    /\ probe.phase = "current"
    /\ probe.det.steps <= 1
    /\ probe.det.label \in DOMAIN lastAlerts
    /\ now - lastAlerts[probe.det.label] < ALERT_COOLDOWN_MS
    /\ probe.kept

\* C3: a detection at three steps whose label was alerted at t0 is
\* suppressed while now - t0 < ALERT_COOLDOWN_MS and kept from
\* now - t0 = ALERT_COOLDOWN_MS on.
C3_CooldownEarnBack ==
    (/\ probe.phase = "current"
     /\ probe.det.steps = 3
     /\ probe.det.label \in DOMAIN lastAlerts)
        => (probe.kept <=> now - lastAlerts[probe.det.label] >= ALERT_COOLDOWN_MS)

C3_Witness ==
    /\ probe.phase = "current"
    /\ probe.det.steps = 3
    /\ probe.det.label \in DOMAIN lastAlerts
    /\ now - lastAlerts[probe.det.label] = ALERT_COOLDOWN_MS
    /\ probe.kept

(***************************************************************************)
(* APIDetectionService, called from the detection interval.                *)
(***************************************************************************)
MaxCalls == 2

API_CHECK_INTERVAL == 30000
API_HEALTH_TIMEOUT_MS == 3000
API_REQUEST_TIMEOUT_MS == 5000

\* how long after the last event a response arrives
NetDelays == {400}

ApiTemplates == {Tpl("person", 50, 50), Tpl("chair", 150, 54)}

\* the lists the API returns and the lists the simulation draws
ApiInputs == {<<>>} \cup {<<t>> : t \in ApiTemplates}

\* convertAPIDetections: no isMoving, no velocity
MakeApiDetections(ts, templates, len) ==
    [i \in 1..Len(templates) |->
        [MakeDetection(templates[i], i, ts, len) EXCEPT
            !.id = <<"api", templates[i].label, ts, i>>,
            !.isMoving = FALSE,
            !.velocity = NoVelocity]]

\* `return []` of processImageForDetection on an empty list of detections
ReturnsEmpty(tracker, la) ==
    [tracker |-> tracker, lastAlerts |-> la, alerts |-> <<>>, stage |-> NoStage]

\* processSimulatedDetections
FallbackResult(sim, tracker, la, t) == RunPipeline(sim, tracker, la, t)

\* the constructor has called checkApiAvailability; the interval is set and
\* its first callback is due
StartedApi ==
    [backend |-> "api",
     isApiAvailable |-> FALSE,
     lastApiCheck |-> 0,
     calls |-> {[id |-> 0, kind |-> "ctor", pc |-> "health",
                 checkedAt |-> 100000, deadline |-> 100000 + API_HEALTH_TIMEOUT_MS]},
     due |-> 100000 + DETECTION_INTERVAL_MS,
     started |-> 0,
     centerFocusOnly |-> TRUE]

InitApi ==
    /\ InitService
    /\ InitScreen
    /\ api = StartedApi
    /\ web = IdleWeb
    /\ probe = IdleProbe

\* time t is reached before any timeout of a call in flight and not after
\* the next callback of the interval
MayPass(t) ==
    /\ \A c \in api.calls : t <= c.deadline
    /\ api.started < MaxCalls => t <= api.due

\* checkApiAvailability answers from its cache
HealthCached(t) == t - api.lastApiCheck < API_CHECK_INTERVAL /\ api.isApiAvailable

\* processImageForDetection is called: up to its first await on the network
ApiTimerFire ==
    /\ api.backend = "api"
    /\ api.started < MaxCalls
    /\ \A c \in api.calls : api.due <= c.deadline
    /\ now' = api.due
    /\ api' = [api EXCEPT
                !.calls = @ \cup
                    {[id |-> api.started + 1, kind |-> "tick",
                      pc |-> IF HealthCached(api.due) THEN "request" ELSE "health",
                      checkedAt |-> api.due,
                      deadline |-> api.due + (IF HealthCached(api.due)
                                              THEN API_REQUEST_TIMEOUT_MS
                                              ELSE API_HEALTH_TIMEOUT_MS)]},
                !.due = @ + DETECTION_INTERVAL_MS,
                !.started = @ + 1]
    /\ outcome' = [kind |-> "called"]
    /\ UNCHANGED <<svcVars, stage, alerts, screen, ticks, emitted, web, probe, settings>>

\* the health check of the constructor resolves
CtorHealthResponds ==
    /\ api.backend = "api"
    /\ \E c \in api.calls, d \in NetDelays, ok \in BOOLEAN :
        /\ c.kind = "ctor"
        /\ MayPass(now + d)
        /\ now' = now + d
        /\ api' = [api EXCEPT !.calls = @ \ {c},
                              !.isApiAvailable = ok,
                              !.lastApiCheck = c.checkedAt]
    /\ outcome' = [kind |-> "checked"]
    /\ UNCHANGED <<svcVars, stage, alerts, screen, ticks, emitted, web, probe, settings>>

\* /health answers ok: the call goes on to sendImageToAPI
HealthOk ==
    /\ api.backend = "api"
    /\ \E c \in api.calls, d \in NetDelays :
        /\ c.kind = "tick"
        /\ c.pc = "health"
        /\ MayPass(now + d)
        /\ now' = now + d
        /\ api' = [api EXCEPT
                    !.calls = (@ \ {c}) \cup
                        {[c EXCEPT !.pc = "request",
                                   !.deadline = now + d + API_REQUEST_TIMEOUT_MS]},
                    !.isApiAvailable = TRUE,
                    !.lastApiCheck = c.checkedAt]
    /\ outcome' = [kind |-> "checked"]
    /\ UNCHANGED <<svcVars, stage, alerts, screen, ticks, emitted, web, probe, settings>>

\* the completion of a call of processImageForDetection with result r
Complete(c, r, t, kind) ==
    /\ now' = t
    /\ objectTracker' = r.tracker
    /\ lastAlerts' = r.lastAlerts
    /\ stage' = r.stage
    /\ alerts' = r.alerts
    /\ emitted' = Emit(emitted, r.alerts, t)
    /\ outcome' = [kind |-> kind]
    /\ ticks' = ticks + 1
    /\ UNCHANGED <<stepLength, screen, web, probe, settings>>

\* /health fails, answers not ok or is aborted: the simulation runs
HealthFails ==
    /\ api.backend = "api"
    /\ \E c \in api.calls, d \in NetDelays, sim \in ApiInputs :
        /\ c.kind = "tick"
        /\ c.pc = "health"
        /\ MayPass(now + d)
        /\ api' = [api EXCEPT !.calls = @ \ {c},
                              !.isApiAvailable = FALSE,
                              !.lastApiCheck = c.checkedAt]
        /\ \E r \in {FallbackResult(MakeDetections(now + d, sim, stepLength),
                                    objectTracker, lastAlerts, now + d)} :
              Complete(c, r, now + d, "unavailable")

\* applyDetectionPipeline of APIDetectionService: step 2 runs if
\* config.centerFocusOnly is set
apiDetectionPipeline(centerFocusOnly, raw, tracker, la, t) ==
    PipelineFrom(raw,
                 IF centerFocusOnly THEN filterCenterFOV(ConfidenceFilter(raw))
                 ELSE ConfidenceFilter(raw),
                 tracker, la, t)

\* processImageForDetection after convertAPIDetections returned raw
RunApiPipeline(centerFocusOnly, raw, tracker, la, t) ==
    Synthesize(apiDetectionPipeline(centerFocusOnly, raw, tracker, la, t), t)

\* /detect answers: an empty list returns [] at once, any other runs the pipeline
ApiRespondsWith(inputs) ==
    /\ api.backend = "api"
    /\ \E c \in api.calls, d \in NetDelays, in \in inputs :
        /\ c.kind = "tick"
        /\ c.pc = "request"
        /\ MayPass(now + d)
        /\ api' = [api EXCEPT !.calls = @ \ {c}]
        /\ \E r \in {IF in = <<>>
                     THEN ReturnsEmpty(objectTracker, lastAlerts)
                     ELSE RunApiPipeline(api.centerFocusOnly,
                                         MakeApiDetections(now + d, in, stepLength),
                                         objectTracker, lastAlerts, now + d)} :
              Complete(c, r, now + d, "ok")

ApiResponds == ApiRespondsWith(ApiInputs)

\* sendImageToAPI throws (conversion, transport, timeout, status): the catch
\* of processImageForDetection runs the simulation
ApiRequestFails ==
    /\ api.backend = "api"
    /\ \E c \in api.calls, d \in NetDelays, sim \in ApiInputs :
        /\ c.kind = "tick"
        /\ c.pc = "request"
        /\ MayPass(now + d)
        /\ api' = [api EXCEPT !.calls = @ \ {c}]
        /\ \E r \in {FallbackResult(MakeDetections(now + d, sim, stepLength),
                                    objectTracker, lastAlerts, now + d)} :
              Complete(c, r, now + d, "failed")

NextApi ==
    \/ ApiTimerFire
    \/ CtorHealthResponds
    \/ HealthOk
    \/ HealthFails
    \/ ApiResponds
    \/ ApiRequestFails

SpecApi == InitApi /\ [][NextApi]_vars

\* either service behind the detection interval
InitBackends ==
    /\ InitService
    /\ InitScreen
    /\ api \in {IdleApi, StartedApi}
    /\ web = IdleWeb
    /\ probe = IdleProbe

NextBackends ==
    \/ Next
    \/ NextApi

SpecBackends == InitBackends /\ [][NextBackends]_vars

\* the calls of processImageForDetection that have not returned
InFlight == {c \in api.calls : c.kind = "tick"}

\* C6: at most one tick is in flight at any time.
C6_SingleFlight == api.backend = "api" => Cardinality(InFlight) <= 1

\* the tick ended in the catch of AIDetectionService.processDetections
IsCaughtTick == IsTick /\ outcome'.kind = "caught"

\* the tick of APIDetectionService found the API unavailable or failing
IsFallbackTick == IsTick /\ outcome'.kind \in {"unavailable", "failed"}

\* C9 as stated: a tick whose detector errors or is unavailable emits no
\* alert and leaves the cooldown table unchanged, as a tick with an empty
\* detection list does.
C9_FaultIsEmptyTick ==
    [][(IsCaughtTick \/ IsFallbackTick)
        => (alerts' = <<>> /\ lastAlerts' = lastAlerts)]_vars

\* C9, amended: no error leaves a tick whose detector errors or is
\* unavailable.  When runAIDetection throws, the tick emits no alert and
\* the cooldown table and the tracking history stay as they were.  When the
\* API is unavailable or its request fails, the tick is a tick on the
\* simulated detections: at most one alert, and the cooldown entry of the
\* alerted label is set to the time of the tick.
C9_FaultOutcome ==
    [][/\ IsTick => outcome'.kind \in {"ok", "caught", "unavailable", "failed"}
       /\ IsCaughtTick
            => /\ alerts' = <<>>
               /\ lastAlerts' = lastAlerts
               /\ objectTracker' = objectTracker
       /\ IsFallbackTick
            => /\ Len(alerts') <= 1
               /\ alerts' = RunPipeline(stage'.raw, objectTracker, lastAlerts, now').alerts
               /\ lastAlerts' = RunPipeline(stage'.raw, objectTracker, lastAlerts,
                                            now').lastAlerts
               /\ Len(alerts') = 1 => lastAlerts'[alerts'[1].detection.label] = now']_vars

C9_Witness ==
    /\ outcome.kind \in {"unavailable", "failed"}
    /\ Len(alerts) = 1
    /\ lastAlerts[alerts[1].detection.label] = now

(***************************************************************************)
(* The web simulation screen: toggleSimulation, startSimulation,           *)
(* stopSimulation.  The component has no effect and no unmount cleanup.    *)
(***************************************************************************)
MaxPresses == 3
MaxFires == 3

WEB_INTERVAL_MS == 3000

\* a part of what generateSimulatedAlert draws
WebLabels == {"chair", "person"}
WebSteps == {1, 6}

\* settings.audioEnabled of the default settings
AudioEnabled == TRUE

\* isActive is the state React holds, seen the value of isActive in the
\* closure of the handler that is currently rendered
MountedWeb ==
    [mounted |-> TRUE, isActive |-> FALSE, seen |-> FALSE, timers |-> {},
     ref |-> 0, made |-> 0, presses |-> 0, fires |-> 0,
     currentAlert |-> <<>>, logged |-> 0, spoken |-> 0]

InitWeb ==
    /\ InitService
    /\ InitScreen
    /\ api = IdleApi
    /\ web = MountedWeb
    /\ probe = IdleProbe

\* no interval of the screen is due before t
NoWebTimerBefore(t) == \A tm \in web.timers : t <= tm.due

\* startSimulation: a new interval, its id stored in the ref
startSimulation(w, t) ==
    [w EXCEPT !.timers = @ \cup {[id |-> w.made + 1, due |-> t + WEB_INTERVAL_MS]},
              !.ref = w.made + 1,
              !.made = @ + 1]

\* stopSimulation: clearInterval of the id in the ref, if any
stopSimulation(w) ==
    IF w.ref # 0 THEN [w EXCEPT !.timers = {tm \in @ : tm.id # w.ref}] ELSE w

\* toggleSimulation as rendered: it reads the isActive of its closure
toggleSimulation ==
    /\ web.mounted
    /\ web.presses < MaxPresses
    /\ \E d \in UserDelays :
        /\ NoWebTimerBefore(now + d)
        /\ now' = now + d
        /\ web' = [(IF ~web.seen THEN startSimulation(web, now + d)
                    ELSE stopSimulation(web))
                   EXCEPT !.isActive = ~web.seen, !.presses = @ + 1]
    /\ UNCHANGED <<svcVars, tickVars, screen, ticks, emitted, api, probe, settings>>

\* React renders the component again: the handlers see the current state
WebRender ==
    /\ web.mounted
    /\ web.seen # web.isActive
    /\ web' = [web EXCEPT !.seen = web.isActive]
    /\ UNCHANGED <<now, svcVars, tickVars, screen, ticks, emitted, api, probe, settings>>

\* a callback of an interval set by startSimulation
WebTimerFire ==
    /\ web.fires < MaxFires
    /\ \E tm \in web.timers, label \in WebLabels, steps \in WebSteps :
        /\ NoWebTimerBefore(tm.due)
        /\ now' = tm.due
        /\ web' = [web EXCEPT
                    !.timers = (@ \ {tm}) \cup {[tm EXCEPT !.due = @ + WEB_INTERVAL_MS]},
                    !.currentAlert = <<[label |-> label, steps |-> steps]>>,
                    !.logged = @ + 1,
                    !.spoken = IF AudioEnabled THEN @ + 1 ELSE @,
                    !.fires = @ + 1]
    /\ UNCHANGED <<svcVars, tickVars, screen, ticks, emitted, api, probe, settings>>

\* the screen is unmounted; nothing runs on unmount
WebUnmount ==
    /\ web.mounted
    /\ web' = [web EXCEPT !.mounted = FALSE]
    /\ UNCHANGED <<now, svcVars, tickVars, screen, ticks, emitted, api, probe, settings>>

NextWeb ==
    \/ toggleSimulation
    \/ WebRender
    \/ WebTimerFire
    \/ WebUnmount

SpecWeb == InitWeb /\ [][NextWeb]_vars

\* C8: a screen has at most one interval timer at any time, and once it is
\* stopped or unmounted no timer callback runs: nothing is logged or spoken
\* until the next start.
C8_StopSilencesScreen ==
    [][/\ Cardinality(web.timers') <= 1
       /\ (~web.mounted \/ ~web.isActive)
            => (web.logged' = web.logged /\ web.spoken' = web.spoken)]_vars

(***************************************************************************)
(* The first tick of a new service over a wide range of detector draws:    *)
(* both categories, one to four steps, moving or not.                      *)
(***************************************************************************)
\* createRealisticDetection with its isMoving draw (velocity 2 m/s)
MovingTpl(label, distance, x, moving) ==
    [Tpl(label, distance, x) EXCEPT !.isMoving = moving,
                                    !.speed = IF moving THEN 20 ELSE 0]

RichTemplates ==
    {MovingTpl(label, dist, 50, moving) :
        label \in {"person", "chair"}, dist \in {50, 100, 150, 250}, moving \in BOOLEAN}

RichTick ==
    /\ api.backend = "ai"
    /\ ticks = 0
    /\ \E in \in ListsOf(RichTemplates, MAX_SIMULATED_OBJECTS) :
       \E r \in {RunPipeline(MakeDetections(now + DETECTION_INTERVAL_MS, in, stepLength),
                              objectTracker, lastAlerts, now + DETECTION_INTERVAL_MS)} :
            /\ now' = now + DETECTION_INTERVAL_MS
            /\ objectTracker' = r.tracker
            /\ lastAlerts' = r.lastAlerts
            /\ stage' = r.stage
            /\ alerts' = r.alerts
            /\ emitted' = Emit(emitted, r.alerts, now + DETECTION_INTERVAL_MS)
    /\ outcome' = [kind |-> "ok"]
    /\ ticks' = ticks + 1
    /\ UNCHANGED <<stepLength, screen, api, web, probe, settings>>

NextRich == RichTick

SpecRich == Init /\ [][NextRich]_vars

\* C11: a tick emits an alert exactly when a detection survives the
\* temporal filter; the alerted detection is a survivor of maximal
\* priority, the earliest of several, and the alert carries that priority.
C11_AlertIsFirstTopSurvivor ==
    /\ Len(alerts) = 1 <=> Len(stage.filtered) >= 1
    /\ Len(alerts) <= 1
    /\ Len(alerts) = 1 =>
          \E i \in DOMAIN stage.filtered :
              /\ alerts[1].detection = stage.filtered[i]
              /\ alerts[1].priority = calculatePriority(stage.filtered[i])
              /\ \A j \in DOMAIN stage.filtered :
                    calculatePriority(stage.filtered[j]) <= calculatePriority(stage.filtered[i])
              /\ \A j \in 1..(i - 1) :
                    calculatePriority(stage.filtered[j]) < calculatePriority(stage.filtered[i])

C11_Witness ==
    /\ Len(stage.filtered) = 2
    /\ calculatePriority(stage.filtered[1]) = calculatePriority(stage.filtered[2])
    /\ Len(alerts) = 1
    /\ alerts[1].detection = stage.filtered[1]

\* C13: after the tracker update, a detection whose tracking key has a
\* history of one observation is not marked moving, whatever the detector
\* supplied.
C13_FirstFrameNotMoving ==
    \A i \in DOMAIN stage.tracked :
        (/\ trackingKey(stage.tracked[i]) \in DOMAIN objectTracker
         /\ Len(objectTracker[trackingKey(stage.tracked[i])]) = 1)
            => ~stage.tracked[i].isMoving

\* C20: the class of an alert is urgent iff steps <= 1 or the detection is
\* moving within 2 steps; otherwise warning iff steps <= 3 or the label is
\* critical; otherwise info.
C20_AlertClass ==
    Len(alerts) = 1 =>
        alerts[1].alertType =
            (IF \/ alerts[1].detection.steps <= 1
                \/ alerts[1].detection.isMoving /\ alerts[1].detection.steps <= 2
             THEN "urgent"
             ELSE IF \/ alerts[1].detection.steps <= 3
                     \/ alerts[1].detection.label \in {"person", "car", "bicycle",
                                                       "motorcycle", "truck"}
                  THEN "warning"
                  ELSE "info")

C20_Witness ==
    /\ Len(alerts) = 1
    /\ alerts[1].detection.isMoving
    /\ alerts[1].detection.steps = 2
    /\ alerts[1].alertType = "urgent"

(***************************************************************************)
(* A screen that is stopped and started again after a long pause: the      *)
(* service keeps its tables over the pause, and the next tick meets        *)
(* cooldown entries older than ALERT_MAX_AGE.                              *)
(***************************************************************************)
PauseTicks == 2
PauseToggles == 3

\* the user toggles at once or leaves the camera off for 40 s
PauseDelays == {300, 40000}

\* a person one step ahead; two chairs three steps ahead close enough to
\* be merged into one cluster
PauseTemplates == {Tpl("person", 50, 50), Tpl("chair", 150, 50), Tpl("chair", 150, 54)}

PauseToggle == ToggleCameraAfter(PauseDelays, PauseToggles)
PauseTick == DetectionTickWith(PauseTemplates, MAX_SIMULATED_OBJECTS, PauseTicks)

NextPause ==
    \/ PauseToggle
    \/ PauseTick

SpecPause == Init /\ [][NextPause]_vars

\* lastAlerts after the step differs from lastAlerts before it at key k only
\* by [an alert for k at the time of the step]
StampedOrKept(k) ==
    \/ /\ Len(alerts') = 1
       /\ k = alerts'[1].detection.label
       /\ k \in DOMAIN lastAlerts'
       /\ lastAlerts'[k] = now'
    \/ /\ k \in DOMAIN lastAlerts
       /\ k \in DOMAIN lastAlerts'
       /\ lastAlerts'[k] = lastAlerts[k]

\* the entry of k is older than ALERT_MAX_AGE at the step and is removed
Evicted(k) ==
    /\ k \in DOMAIN lastAlerts
    /\ k \notin DOMAIN lastAlerts'
    /\ now' - lastAlerts[k] > ALERT_MAX_AGE

ClusterTemplates ==
    {MovingTpl(label, dist, x, moving) :
        label \in {"person", "chair"}, dist \in {50, 100}, x \in {32, 50, 54},
        moving \in BOOLEAN}

PermutationsOf(s) ==
    {[i \in DOMAIN s |-> s[p[i]]] :
        p \in {q \in [DOMAIN s -> DOMAIN s] : \A i, j \in DOMAIN s : q[i] = q[j] => i = j}}

InitCluster ==
    /\ InitService
    /\ InitScreen
    /\ api = IdleApi
    /\ web = IdleWeb
    /\ \E in \in ListsOf(ClusterTemplates, MAX_SIMULATED_OBJECTS) :
       \E permuted \in PermutationsOf(MakeDetections(now, in, stepLength)) :
            probe = [phase |-> "drawn",
                     dets |-> MakeDetections(now, in, stepLength),
                     permuted |-> permuted,
                     out |-> <<>>,
                     outPermuted |-> <<>>]

\* step 5 of applyDetectionPipeline on the list and on its permutation
ApplyCluster ==
    /\ probe.phase = "drawn"
    /\ probe' = [probe EXCEPT !.phase = "clustered",
                              !.out = clusterNearbyObjects(probe.dets, now),
                              !.outPermuted = clusterNearbyObjects(probe.permuted, now)]
    /\ UNCHANGED <<now, svcVars, tickVars, screen, ticks, emitted, api, web, settings>>

NextCluster == ApplyCluster

SpecCluster == InitCluster /\ [][NextCluster]_vars

\* a detection without its id
ContentOf(d) ==
    [label |-> d.label, steps |-> d.steps, distance |-> d.distance, x |-> d.x, y |-> d.y,
     confidence |-> d.confidence, isMoving |-> d.isMoving, velocity |-> d.velocity]

ContentSet(dets) == {ContentOf(dets[i]) : i \in DOMAIN dets}

ContentSeq(dets) == [i \in DOMAIN dets |-> ContentOf(dets[i])]

\* C14: clustering a list and clustering a permutation of it give the same
\* representatives (label, steps, x, confidence, movement), ids and output
\* order aside; a one-element list is returned unchanged.
C14_ClusterOrderIndependent ==
    probe.phase = "clustered" =>
        /\ ContentSet(probe.out) = ContentSet(probe.outPermuted)
        /\ Len(probe.dets) = 1 => probe.out = probe.dets

\* C15: a list in which no two detections are within
\* CLUSTER_DISTANCE_THRESHOLD steps and 0.2 of x of each other is returned
\* by the clustering with the same content.
C15_ClusterIdempotent ==
    (/\ probe.phase = "clustered"
     /\ \A i, j \in DOMAIN probe.dets :
            i # j => ~(/\ Abs(probe.dets[i].steps - probe.dets[j].steps) * 10 <= 8
                       /\ Abs(probe.dets[i].x - probe.dets[j].x) <= 20))
        => ContentSeq(probe.out) = ContentSeq(probe.dets)

\* two detections one step apart on the same bearing stay two detections
C15_Witness ==
    /\ probe.phase = "clustered"
    /\ Len(probe.dets) = 2
    /\ probe.dets[1].x = probe.dets[2].x
    /\ Abs(probe.dets[1].steps - probe.dets[2].steps) = 1
    /\ ContentSeq(probe.out) = ContentSeq(probe.dets)

(***************************************************************************)
(* metersToSteps as a function of the distance and of the step length the  *)
(* service holds: two distances and two step lengths are drawn, and the    *)
(* four step counts computed.                                              *)
(***************************************************************************)
\* distances of the detector, 0.5 m to 7 m
StepDistances == {50, 65, 100, 130, 150, 700}

\* step lengths updateStepLength accepts: those of the settings screen
\* (40 to 100 cm) and a negative one, which it stores like any other
StepLengths == {0 - 65, 40, 65, 100}

InitSteps ==
    /\ InitService
    /\ InitScreen
    /\ api = IdleApi
    /\ web = IdleWeb
    /\ \E cm \in StepDistances, cm2 \in StepDistances,
          len \in StepLengths, len2 \in StepLengths :
            probe = [phase |-> "drawn", cm |-> cm, cm2 |-> cm2, len |-> len, len2 |-> len2,
                     steps |-> 0, stepsFarther |-> 0, stepsLonger |-> 0]

\* updateStepLength(len) and metersToSteps of both distances, then
\* updateStepLength(len2) and metersToSteps of the first distance
ApplySteps ==
    /\ probe.phase = "drawn"
    /\ probe' = [probe EXCEPT !.phase = "computed",
                              !.steps = metersToSteps(probe.cm, probe.len),
                              !.stepsFarther = metersToSteps(probe.cm2, probe.len),
                              !.stepsLonger = metersToSteps(probe.cm, probe.len2)]
    /\ stepLength' = probe.len2
    /\ UNCHANGED <<now, lastAlerts, objectTracker, tickVars, screen, ticks, emitted, api, web, settings>>

NextSteps == ApplySteps

SpecSteps == InitSteps /\ [][NextSteps]_vars

\* s is the least integer not below cm / len
IsCeiling(s, cm, len) ==
    IF len > 0 THEN (s - 1) * len < cm /\ cm <= s * len
    ELSE s * len <= cm /\ cm < (s - 1) * len

\* C16: metersToSteps is the ceiling of distance / step length; it does not
\* decrease when the distance grows at a fixed positive step length, and
\* does not increase when the step length grows at a fixed distance.
C16_StepsCeilingMonotone ==
    probe.phase = "computed" =>
        /\ IsCeiling(probe.steps, probe.cm, probe.len)
        /\ (probe.len > 0 /\ probe.cm <= probe.cm2) => probe.steps <= probe.stepsFarther
        /\ probe.len <= probe.len2 => probe.steps >= probe.stepsLonger

(***************************************************************************)
(* CameraScreen with its settings: the stored settings arrive after the    *)
(* mount, the user switches audio and haptics while the detection          *)
(* interval runs.                                                          *)
(***************************************************************************)
SettingsTicks == 2
SettingsToggles == 2

\* step lengths found in the stored settings: JSON.parse of loadSettings
\* and importSettings takes any number (a stored 0 makes every step count
\* Infinity and is left to the negative case)
StoredLengths == {0 - 65, 65, 80}

\* a person one step ahead (urgent, announced and felt), a chair three
\* steps ahead
SettingsTemplates == {Tpl("person", 50, 50), Tpl("chair", 150, 54)}

\* loadSettings of useSettings: the stored object is merged over the
\* defaults; then the effect on [settings.stepLength] of CameraScreen
LoadSettings ==
    /\ settings.isLoading
    /\ \E len \in StoredLengths, audio \in BOOLEAN, haptic \in BOOLEAN :
        /\ settings' = [settings EXCEPT !.stepLength = len,
                                        !.audioEnabled = audio,
                                        !.hapticEnabled = haptic,
                                        !.isLoading = FALSE]
        /\ stepLength' = len
    /\ UNCHANGED <<now, lastAlerts, objectTracker, tickVars, screen, ticks, emitted,
                   api, web, probe>>

\* toggleAudio: updateSettings({audioEnabled: !settings.audioEnabled})
ToggleAudio ==
    /\ settings' = [settings EXCEPT !.audioEnabled = ~@]
    /\ UNCHANGED <<now, svcVars, tickVars, screen, ticks, emitted, api, web, probe>>

\* toggleHaptic: updateSettings({hapticEnabled: !settings.hapticEnabled})
ToggleHaptic ==
    /\ settings' = [settings EXCEPT !.hapticEnabled = ~@]
    /\ UNCHANGED <<now, svcVars, tickVars, screen, ticks, emitted, api, web, probe>>

SettingsToggleCamera == ToggleCameraAfter(UserDelays, SettingsToggles)
SettingsTick == DetectionTickWith(SettingsTemplates, MAX_SIMULATED_OBJECTS, SettingsTicks)

NextSettings ==
    \/ LoadSettings
    \/ ToggleAudio
    \/ ToggleHaptic
    \/ SettingsToggleCamera
    \/ SettingsTick

SpecSettings == Init /\ [][NextSettings]_vars

\* C17: a non-positive step length, passed to the constructor or to
\* updateStepLength or coming from stored settings, is rejected and the
\* previous one stays in effect: no tick computes steps with a step length
\* that is not positive.
C17_TicksUsePositiveStepLength ==
    [][IsTick => stepLength > 0]_vars

\* C19: the alert of a tick is spoken only if audio is enabled in the
\* settings when the tick emits it, and felt only if haptic feedback is
\* enabled then, also after the user switched the setting with the
\* detection interval running.
C19_FeedbackFollowsSettings ==
    [][IsTick => /\ screen'.spoken => settings.audioEnabled
                 /\ screen'.vibrated => settings.hapticEnabled]_vars

(***************************************************************************)
(* Two services fed the same detections at the same tick times.  The       *)
(* detector draws the id suffix of a detection at random, so the two runs  *)
(* see the same detections under different ids; the second service is kept *)
(* in probe.                                                               *)
(***************************************************************************)
TwinTicks == 2

\* two chairs on one bearing at 3 and 4 steps (equal priority), a chair
\* beside the first (merged with it), a person one step ahead
TwinTemplates ==
    {Tpl("chair", 150, 50), Tpl("chair", 250, 50), Tpl("chair", 150, 54), Tpl("person", 50, 50)}

\* the same detections with other draws of Math.random().toString(36) in
\* their ids
OtherIds(dets) ==
    [i \in DOMAIN dets |-> [dets[i] EXCEPT !.id = <<@[1], @[2], Len(dets) + 1 - @[3]>>]]

InitTwin ==
    /\ InitService
    /\ InitScreen
    /\ api = IdleApi
    /\ web = IdleWeb
    /\ probe = [phase |-> "twin", tracker |-> EmptyMap, lastAlerts |-> EmptyMap,
                alerts |-> <<>>]

\* processDetections of both services on the detections of one tick
TwinTick ==
    /\ ticks < TwinTicks
    /\ \E in \in ListsOf(TwinTemplates, MAX_SIMULATED_OBJECTS) :
       \E dets \in {MakeDetections(now + DETECTION_INTERVAL_MS, in, stepLength)} :
       \E r \in {RunPipeline(dets, objectTracker, lastAlerts, now + DETECTION_INTERVAL_MS)} :
       \E q \in {RunPipeline(OtherIds(dets), probe.tracker, probe.lastAlerts,
                              now + DETECTION_INTERVAL_MS)} :
            /\ now' = now + DETECTION_INTERVAL_MS
            /\ objectTracker' = r.tracker
            /\ lastAlerts' = r.lastAlerts
            /\ stage' = r.stage
            /\ alerts' = r.alerts
            /\ emitted' = Emit(emitted, r.alerts, now + DETECTION_INTERVAL_MS)
            /\ probe' = [probe EXCEPT !.tracker = q.tracker,
                                      !.lastAlerts = q.lastAlerts,
                                      !.alerts = q.alerts]
    /\ outcome' = [kind |-> "ok"]
    /\ ticks' = ticks + 1
    /\ UNCHANGED <<stepLength, screen, api, web, settings>>

NextTwin == TwinTick

SpecTwin == InitTwin /\ [][NextTwin]_vars

\* what a consumer receives of an alert
AlertContent(a) ==
    [label |-> a.detection.label, steps |-> a.detection.steps, alertType |-> a.alertType,
     shouldAnnounce |-> a.shouldAnnounce, shouldVibrate |-> a.shouldVibrate,
     message |-> a.message, priority |-> a.priority]

ScoreDistances == {50, 100, 150, 250, 300, 350, 400, 700}

\* a critical, a warning and an info label; positions inside the center
\* field of view, on both sides of the 0.3 and 0.7 marks of the message;
\* a speed at, below and above the 1 and 1.5 m/s marks
ScoreTemplates ==
    {[MovingTpl(label, dist, x, speed > 0) EXCEPT !.confidence = conf, !.speed = speed] :
        label \in {"person", "chair", "wall"}, dist \in ScoreDistances,
        x \in {28, 50, 72}, conf \in {70, 85}, speed \in {0, 10, 15, 20}}

InitScore ==
    /\ InitService
    /\ InitScreen
    /\ api = IdleApi
    /\ web = IdleWeb
    /\ \E tpl \in ScoreTemplates, dist2 \in ScoreDistances :
            probe = [phase |-> "drawn",
                     tpl |-> tpl,
                     det |-> MakeDetection(tpl, 1, now, stepLength),
                     other |-> MakeDetection([tpl EXCEPT !.distance = dist2], 1, now,
                                             stepLength),
                     kept |-> FALSE, priority |-> 0, otherPriority |-> 0, message |-> ""]

\* step 4 of applyDetectionPipeline on the detection alone, and
\* createSmartAlert of it
ApplyScore ==
    /\ probe.phase = "drawn"
    /\ probe' = [probe EXCEPT
                    !.phase = "scored",
                    !.kept = Len(filterByMovementAndProximity(<<probe.det>>)) = 1,
                    !.priority = createSmartAlert(probe.det, now).priority,
                    !.otherPriority = createSmartAlert(probe.other, now).priority,
                    !.message = createSmartAlert(probe.det, now).message]
    /\ UNCHANGED <<now, svcVars, tickVars, screen, ticks, emitted, api, web, settings>>

NextScore == ApplyScore

SpecScore == InitScore /\ [][NextScore]_vars

\* C21: the message is the urgency prefix ("Stop! " at 1 step, "Caution! "
\* at 2 steps when moving), then "<label> ahead in <steps> step(s)", then
\* the movement suffix (", moving fast" above 1.5 m/s, ", moving" when
\* moving otherwise), then the direction (" to your left" for x < 0.3,
\* " to your right" for x > 0.7).
C21_MessageComposition ==
    probe.phase = "scored" =>
        probe.message =
            (IF probe.det.steps = 1 THEN "Stop! "
             ELSE IF probe.det.steps = 2 /\ probe.tpl.isMoving THEN "Caution! " ELSE "")
            \o probe.tpl.label \o " ahead in " \o ToString(probe.det.steps)
            \o (IF probe.det.steps = 1 THEN " step" ELSE " steps")
            \o (IF probe.tpl.isMoving /\ probe.tpl.speed > 15 THEN ", moving fast"
                ELSE IF probe.tpl.isMoving THEN ", moving" ELSE "")
            \o (IF probe.tpl.x < 30 THEN " to your left"
                ELSE IF probe.tpl.x > 70 THEN " to your right" ELSE "")

C21_Witness ==
    /\ probe.phase = "scored"
    /\ probe.message = "Caution! person ahead in 2 steps, moving fast to your left"

\* C25: the proximity / movement filter keeps a detection iff steps <= 2,
\* or it is moving within 6 steps, or its label is critical within 4
\* steps, or its confidence exceeds 0.8 within 5 steps.
C25_ProximityWhitelist ==
    probe.phase = "scored" =>
        (probe.kept <=>
            \/ probe.det.steps <= 2
            \/ probe.tpl.isMoving /\ probe.det.steps <= 6
            \/ probe.tpl.label \in {"person", "car", "bicycle", "motorcycle", "truck"}
               /\ probe.det.steps <= 4
            \/ probe.tpl.confidence > 80 /\ probe.det.steps <= 5)

\* a stationary wall of low confidence two steps ahead is kept
C25_Witness ==
    /\ probe.phase = "scored"
    /\ probe.kept
    /\ probe.det.steps = 2
    /\ probe.tpl.label = "wall"
    /\ probe.tpl.confidence = 70
    /\ ~probe.tpl.isMoving

\* the priority the claim C29 describes, times 100
StatedPriority(steps, tpl) ==
    (IF steps <= 1 THEN 5000
     ELSE IF steps <= 2 THEN 3000
     ELSE IF steps <= 4 THEN 1500
     ELSE IF steps >= 10 THEN 0 ELSE (10 - steps) * 100)
    + (100 - (IF tpl.x >= 50 THEN tpl.x - 50 ELSE 50 - tpl.x)) * 10
    + (IF tpl.label \in {"person", "car", "bicycle", "motorcycle", "truck"} THEN 2000
       ELSE IF tpl.label \in {"chair", "table", "door", "pole", "stairs", "step"} THEN 1000
       ELSE IF tpl.label \in {"wall", "tree", "bench", "trash can", "sign"} THEN 500
       ELSE 0)
    + (IF tpl.isMoving THEN 1500 + (IF tpl.speed > 10 THEN 1000 ELSE 0) ELSE 0)
    + tpl.confidence * 8

CenteredPersonsAtOne ==
    {t \in ScoreTemplates : t.label = "person" /\ t.distance = 50 /\ t.x = 50}

CenteredChairsAtFive ==
    {t \in ScoreTemplates : t.label = "chair" /\ t.distance = 300 /\ t.x = 50}

\* C29: the priority is the distance term plus center bonus plus category
\* bonus plus movement bonus plus confidence * 8; of two detections that
\* differ in steps only the nearer never scores lower; a centered person
\* at 1 step outranks a centered chair at 5 steps.
C29_PrioritySum ==
    probe.phase = "scored" =>
        /\ probe.priority = StatedPriority(probe.det.steps, probe.tpl)
        /\ probe.det.steps <= probe.other.steps => probe.priority >= probe.otherPriority
        /\ \A p \in CenteredPersonsAtOne, c \in CenteredChairsAtFive :
              createSmartAlert(MakeDetection(p, 1, now, stepLength), now).priority
                  > createSmartAlert(MakeDetection(c, 1, now, stepLength), now).priority

\* a detection 11 steps away scored against the same detection 1 step away
C29_Witness ==
    /\ probe.phase = "scored"
    /\ probe.det.steps = 11
    /\ probe.other.steps = 1
    /\ probe.otherPriority > probe.priority
    /\ probe.priority = StatedPriority(11, probe.tpl)

(***************************************************************************)
(* APIDetectionService with its configuration: the owner of the service    *)
(* may switch centerFocusOnly, and the API reports objects anywhere in the *)
(* frame.                                                                  *)
(***************************************************************************)
\* a chair at the left edge of the frame besides the answers of ApiInputs
WideApiInputs == ApiInputs \cup {<<Tpl("chair", 150, 10)>>}

\* updateConfiguration({centerFocusOnly: ...})
UpdateConfiguration ==
    /\ api.backend = "api"
    /\ \E flag \in BOOLEAN :
        /\ flag # api.centerFocusOnly
        /\ api' = [api EXCEPT !.centerFocusOnly = flag]
    /\ UNCHANGED <<now, svcVars, tickVars, screen, ticks, emitted, web, probe, settings>>

ApiRespondsWide == ApiRespondsWith(WideApiInputs)

NextApiConfig ==
    \/ ApiTimerFire
    \/ CtorHealthResponds
    \/ HealthOk
    \/ HealthFails
    \/ ApiRespondsWide
    \/ ApiRequestFails
    \/ UpdateConfiguration

SpecApiConfig == InitApi /\ [][NextApiConfig]_vars

\* C22: every detection stored in objectTracker lies within
\* CENTER_FOV_THRESHOLD of the center, because the center filter runs
\* before the tracker update on every tick.
C22_HistoryInsideCenterView ==
    \A k \in DOMAIN objectTracker :
        \A i \in DOMAIN objectTracker[k] :
            /\ objectTracker[k][i].x - 50 <= 25
            /\ 50 - objectTracker[k][i].x <= 25

\* the ids of a history, oldest first
IdsOf(h) == [i \in DOMAIN h |-> h[i].id]

\* the ids of the detections of a list that fall under a tracking key
IdsUnder(dets, k) == IdsOf(SelectSeq(dets, LAMBDA d : trackingKey(d) = k))

\* s is what remains of t after dropping entries from its front
IsSuffix(s, t) ==
    /\ Len(s) <= Len(t)
    /\ s = SubSeq(t, Len(t) - Len(s) + 1, Len(t))

C24_VelocityOnlyWhenMoving ==
    \A i \in DOMAIN stage.tracked :
        /\ VelTruthy(stage.tracked[i].velocity) => stage.tracked[i].isMoving
        /\ (/\ trackingKey(stage.tracked[i]) \in DOMAIN objectTracker
            /\ Len(objectTracker[trackingKey(stage.tracked[i])]) >= 2
            /\ objectTracker[trackingKey(stage.tracked[i])]
                    [Len(objectTracker[trackingKey(stage.tracked[i])])].id
                  = stage.tracked[i].id)
              => LET h == objectTracker[trackingKey(stage.tracked[i])]
                 IN  /\ stage.tracked[i].velocity.n
                          = (h[Len(h)].x - h[Len(h) - 1].x) * (h[Len(h)].x - h[Len(h) - 1].x)
                            + (h[Len(h)].y - h[Len(h) - 1].y) * (h[Len(h)].y - h[Len(h) - 1].y)
                     /\ stage.tracked[i].velocity.d
                          = h[Len(h)].timestamp - h[Len(h) - 1].timestamp

(***************************************************************************)
(* clusterNearbyObjects on lists longer than the simulated detector's: the *)
(* lists a detection backend with several objects in view hands to step 5. *)
(***************************************************************************)
ClusterListLen == 4

PartitionTemplates ==
    {Tpl("chair", dist, x) : dist \in {50, 100}, x \in {32, 50, 54}}
        \cup {Tpl("person", 50, 50)}

InitPartition ==
    /\ InitService
    /\ InitScreen
    /\ api = IdleApi
    /\ web = IdleWeb
    /\ \E in \in ListsOf(PartitionTemplates, ClusterListLen) :
            probe = [phase |-> "drawn",
                     dets |-> MakeDetections(now, in, stepLength),
                     clusters |-> <<>>,
                     out |-> <<>>]

\* step 5 of applyDetectionPipeline, with the clusters it formed
ApplyPartition ==
    /\ probe.phase = "drawn"
    /\ probe' = [probe EXCEPT !.phase = "clustered",
                              !.clusters = ClustersOf(probe.dets),
                              !.out = clusterNearbyObjects(probe.dets, now)]
    /\ UNCHANGED <<now, svcVars, tickVars, screen, ticks, emitted, api, web, settings>>

NextPartition == ApplyPartition

SpecPartition == InitPartition /\ [][NextPartition]_vars

\* the number of clusters a detection is a member of, counted with
\* multiplicity
Memberships(clusters, id) ==
    Cardinality(UNION {{<<c, j>> : j \in {k \in DOMAIN clusters[c] : clusters[c][k].id = id}} :
                          c \in DOMAIN clusters})

RECURSIVE SumLen(_, _)
SumLen(clusters, c) ==
    IF c > Len(clusters) THEN 0 ELSE Len(clusters[c]) + SumLen(clusters, c + 1)

\* C26: clusterNearbyObjects puts every input detection in exactly one
\* cluster, so the cluster sizes add up to the input length; every member
\* of a cluster is an input detection and every member after the seed
\* satisfies the merge predicate against the seed; one output per cluster.
C26_ClustersPartitionInput ==
    probe.phase = "clustered" =>
        /\ \A i \in DOMAIN probe.dets : Memberships(probe.clusters, probe.dets[i].id) = 1
        /\ SumLen(probe.clusters, 1) = Len(probe.dets)
        /\ Len(probe.out) = Len(probe.clusters)
        /\ \A c \in DOMAIN probe.clusters :
              /\ Len(probe.clusters[c]) >= 1
              /\ \A j \in DOMAIN probe.clusters[c] :
                    /\ \E i \in DOMAIN probe.dets : probe.dets[i] = probe.clusters[c][j]
                    /\ j > 1 => MergePredicate(probe.clusters[c][1], probe.clusters[c][j])

\* a chain of three: the middle detection is within reach of both ends, the
\* ends are not within reach of each other; the seed takes the middle one
\* and the far end stays alone
C26_Witness ==
    /\ probe.phase = "clustered"
    /\ Len(probe.dets) = 3
    /\ MergePredicate(probe.dets[1], probe.dets[2])
    /\ MergePredicate(probe.dets[2], probe.dets[3])
    /\ ~MergePredicate(probe.dets[1], probe.dets[3])
    /\ Len(probe.clusters) = 2
    /\ probe.clusters[1] = <<probe.dets[1], probe.dets[2]>>
    /\ probe.clusters[2] = <<probe.dets[3]>>

(***************************************************************************)
(* Ticks on a chair that drifts inside one tracking cell: the tracker      *)
(* marks it moving or not and sets its velocity, and the clusterer merges  *)
(* the chairs of one frame.                                                *)
(***************************************************************************)
DriftTicks == 2
DriftToggles == 1

DriftTemplates == {Tpl("chair", 150, 46), Tpl("chair", 150, 52), Tpl("chair", 150, 54)}

DriftToggle == ToggleCameraAfter(UserDelays, DriftToggles)
DriftTick == DetectionTickWith(DriftTemplates, MAX_SIMULATED_OBJECTS, DriftTicks)

NextDrift ==
    \/ DriftToggle
    \/ DriftTick

SpecDrift == Init /\ [][NextDrift]_vars

\* two velocities are the same number
VelSame(a, b) == ~VelLess(a, b) /\ ~VelLess(b, a)

MovingOf(cluster) == SelectSeq(cluster, LAMBDA d : d.isMoving)

\* the largest velocity among the moving members of a cluster
MovingVelMax(cluster) ==
    LET vs == [i \in DOMAIN MovingOf(cluster) |-> VelOrZero(MovingOf(cluster)[i].velocity)]
    IN  VelMax(vs, 2, vs[1])

\* C27: a cluster of one is output as its member; the representative of a
\* larger cluster has the steps, distance and position of a member of
\* least steps, the largest confidence of the members, is moving iff a
\* member is, and has the largest velocity of the moving members, 0 when
\* none moves.
C27_RepresentativeFields ==
    \A c \in DOMAIN ClustersOf(stage.proximate) :
        LET cluster == ClustersOf(stage.proximate)[c]
            rep == stage.clustered[c]
        IN  IF Len(cluster) = 1 THEN rep = cluster[1]
            ELSE /\ \A j \in DOMAIN cluster : rep.steps <= cluster[j].steps
                 /\ \E j \in DOMAIN cluster :
                        /\ rep.steps = cluster[j].steps
                        /\ rep.distance = cluster[j].distance
                        /\ rep.x = cluster[j].x
                        /\ rep.y = cluster[j].y
                 /\ \A j \in DOMAIN cluster : rep.confidence >= cluster[j].confidence
                 /\ \E j \in DOMAIN cluster : rep.confidence = cluster[j].confidence
                 /\ rep.isMoving <=> \E j \in DOMAIN cluster : cluster[j].isMoving
                 /\ IF \E j \in DOMAIN cluster : cluster[j].isMoving
                    THEN VelSame(rep.velocity, MovingVelMax(cluster))
                    ELSE VelSame(rep.velocity, ZeroVelocity)

(***************************************************************************)
(* The detection API answering with four objects in one frame: two chairs  *)
(* one step away and two chairs three steps away.                          *)
(***************************************************************************)
CrowdApiInputs ==
    ApiInputs \cup {<<Tpl("chair", 50, 40), Tpl("chair", 50, 44),
                      Tpl("chair", 150, 40), Tpl("chair", 150, 44)>>}

ApiRespondsCrowd == ApiRespondsWith(CrowdApiInputs)

NextApiCrowd ==
    \/ ApiTimerFire
    \/ CtorHealthResponds
    \/ HealthOk
    \/ HealthFails
    \/ ApiRespondsCrowd
    \/ ApiRequestFails

SpecApiCrowd == InitApi /\ [][NextApiCrowd]_vars

\* C28: the ids the clusterer outputs in one tick are pairwise different,
\* and a representative's id is not the id of any detection that went into
\* the clustering of that tick.
C28_ClusterIdsUnique ==
    /\ \A i, j \in DOMAIN stage.clustered :
          i # j => stage.clustered[i].id # stage.clustered[j].id
    /\ \A i \in DOMAIN stage.clustered, j \in DOMAIN stage.proximate :
          stage.clustered[i].id = stage.proximate[j].id
              => stage.clustered[i] = stage.proximate[j]

\* C30: every detection the service keeps in its tracking histories has
\* steps = ceil(distance / (stepLength / 100)) for the step length the
\* service has now, also after updateStepLength.
C30_StepsFollowStepLength ==
    \A k \in DOMAIN objectTracker :
        \A i \in DOMAIN objectTracker[k] :
            objectTracker[k][i].steps = metersToSteps(objectTracker[k][i].distance, stepLength)

\* C31: after the garbage collection of a tick at time now, every entry of
\* every tracking history is younger than TRACK_MAX_AGE, no key has an
\* empty history and every cooldown entry is at most ALERT_MAX_AGE old; a
\* cooldown entry within that age stays, and a history entry within its age
\* stays unless the history overflowed.
C31_GarbageCollectionByAge ==
    [][IsTick =>
        /\ \A k \in DOMAIN objectTracker' :
              /\ Len(objectTracker'[k]) > 0
              /\ \A i \in DOMAIN objectTracker'[k] :
                    now' - objectTracker'[k][i].timestamp < TRACK_MAX_AGE
        /\ \A k \in DOMAIN lastAlerts' : now' - lastAlerts'[k] <= ALERT_MAX_AGE
        /\ \A k \in DOMAIN lastAlerts :
              now' - lastAlerts[k] <= ALERT_MAX_AGE => k \in DOMAIN lastAlerts'
        /\ \A k \in DOMAIN objectTracker :
              \A i \in DOMAIN objectTracker[k] :
                 now' - objectTracker[k][i].timestamp < TRACK_MAX_AGE
                    => /\ k \in DOMAIN objectTracker'
                       /\ \/ \E j \in DOMAIN objectTracker'[k] :
                                objectTracker'[k][j].id = objectTracker[k][i].id
                          \/ Len(objectTracker'[k]) = TRACKING_HISTORY_SIZE]_vars

\* a tick after a pause longer than both ages: the person alerted before
\* the pause has left the cooldown table and the tracker, the chair of this
\* tick is in both
C31_Witness ==
    /\ ticks = 2
    /\ outcome.kind = "ok"
    /\ "person" \in DOMAIN emitted
    /\ now - emitted["person"].at > ALERT_MAX_AGE
    /\ "person" \notin DOMAIN lastAlerts
    /\ <<"person", 5>> \notin DOMAIN objectTracker
    /\ <<"chair", 5>> \in DOMAIN objectTracker
    /\ "chair" \in DOMAIN lastAlerts

\* C32: on a tick with an alert, an alert that is not urgent is spoken only
\* when more than announcementDelay has passed since the last spoken alert;
\* an urgent alert with shouldAnnounce is spoken whenever audio is enabled;
\* lastAnnouncementTime moves only when the alert of the tick is spoken.
C32_AnnouncementPacing ==
    [][/\ (IsTick /\ Len(alerts') = 1) =>
            /\ (screen'.spoken /\ alerts'[1].alertType # "urgent")
                  => now' - screen.lastAnnouncementTime > settings.announcementDelay
            /\ (/\ alerts'[1].alertType = "urgent"
                /\ alerts'[1].shouldAnnounce
                /\ settings.audioEnabled) => screen'.spoken
       /\ screen'.lastAnnouncementTime # screen.lastAnnouncementTime
            => /\ IsTick
               /\ screen'.spoken
               /\ screen'.lastAnnouncementTime = now']_vars

\* C33: a call of checkApiAvailability issues a health request only when
\* API_CHECK_INTERVAL has passed since the last one, whether that one found
\* the API available or not.
C33_HealthProbeAtMostOncePerInterval ==
    [][\A c \in api'.calls \ api.calls :
          c.pc = "health" =>
             /\ c.checkedAt - api.lastApiCheck >= API_CHECK_INTERVAL
             /\ \A p \in api.calls :
                   p.pc = "health" => c.checkedAt - p.checkedAt >= API_CHECK_INTERVAL]_vars

(***************************************************************************)
(* Ticks on chairs at the edges of the tracking cells: x = 0.44 rounds to  *)
(* cell 4, 0.45 and 0.54 to cell 5, 0.55 to cell 6.                        *)
(***************************************************************************)
BinTemplates ==
    {Tpl("chair", 150, x) : x \in {44, 45, 54, 55}} \cup {Tpl("person", 150, 54)}

BinToggle == ToggleCameraAfter(UserDelays, DriftToggles)
BinTick == DetectionTickWith(BinTemplates, MAX_SIMULATED_OBJECTS, DriftTicks)

NextBins ==
    \/ BinToggle
    \/ BinTick

SpecBins == Init /\ [][NextBins]_vars

\* C34: the entries of one tracking history have the label of the key and
\* an x in the key's cell (Math.round(x * 10) equal), so any two of them,
\* the first and the last included, are at most 0.1 apart in x, less than
\* POSITION_CHANGE_THRESHOLD.
C34_HistoryInOneCell ==
    \A k \in DOMAIN objectTracker :
        /\ \A i \in DOMAIN objectTracker[k] :
              /\ objectTracker[k][i].label = k[1]
              /\ (objectTracker[k][i].x + 5) \div 10 = k[2]
        /\ \A i, j \in DOMAIN objectTracker[k] :
              Abs(objectTracker[k][i].x - objectTracker[k][j].x) <= 10
        /\ Abs(objectTracker[k][1].x - objectTracker[k][Len(objectTracker[k])].x)
              < POSITION_CHANGE_THRESHOLD

\* the two ends of cell 5 in one history, the neighbours in their own cells
C34_Witness ==
    /\ <<"chair", 5>> \in DOMAIN objectTracker
    /\ Len(objectTracker[<<"chair", 5>>]) = 2
    /\ objectTracker[<<"chair", 5>>][1].x = 45
    /\ objectTracker[<<"chair", 5>>][2].x = 54
    /\ <<"chair", 4>> \in DOMAIN objectTracker
    /\ <<"chair", 6>> \in DOMAIN objectTracker

\* C35: consecutive entries of a tracking history have strictly increasing
\* timestamps, and no velocity the tracker computed divides by a time
\* difference of zero.
C35_TimestampsStrictlyIncrease ==
    /\ \A k \in DOMAIN objectTracker :
          \A i \in DOMAIN objectTracker[k] :
              i > 1 => objectTracker[k][i - 1].timestamp < objectTracker[k][i].timestamp
    /\ \A i \in DOMAIN stage.tracked :
          stage.tracked[i].velocity.def => stage.tracked[i].velocity.d > 0

(***************************************************************************)
(* Ticks on detections at the limits of the filters: 6 and 7 steps away,   *)
(* confidence below MIN_CONFIDENCE, at and below the 0.8 of the proximity  *)
(* rule.                                                                   *)
(***************************************************************************)
ReachTicks == 2
ReachToggles == 1

ReachTemplates ==
    {Tpl("chair", 150, 50),
     MovingTpl("chair", 400, 50, TRUE),
     [MovingTpl("chair", 390, 32, TRUE) EXCEPT !.confidence = 70],
     [Tpl("chair", 50, 50) EXCEPT !.confidence = 55],
     [Tpl("person", 250, 68) EXCEPT !.confidence = 70],
     [Tpl("chair", 300, 50) EXCEPT !.confidence = 70]}

ReachToggle == ToggleCameraAfter(UserDelays, ReachToggles)
ReachTick == DetectionTickWith(ReachTemplates, MAX_SIMULATED_OBJECTS, ReachTicks)

NextReach ==
    \/ ReachToggle
    \/ ReachTick

SpecReach == Init /\ [][NextReach]_vars

\* C36: every alert of a tick is about a detection at most 6 steps away
\* with confidence at least MIN_CONFIDENCE; it has shouldAnnounce, and it
\* has shouldVibrate exactly when it is at most 2 steps away and the
\* platform is not the web.
C36_AlertWithinReach ==
    \A i \in DOMAIN alerts :
        /\ alerts[i].detection.steps <= 6
        /\ alerts[i].detection.confidence >= MIN_CONFIDENCE
        /\ alerts[i].shouldAnnounce
        /\ alerts[i].shouldVibrate <=> (alerts[i].detection.steps <= 2 /\ ~PlatformIsWeb)

\* the farthest alert: a moving chair 6 steps away with confidence 0.7
C36_Witness ==
    /\ Len(alerts) = 1
    /\ alerts[1].detection.steps = 6
    /\ alerts[1].detection.confidence = 70
    /\ alerts[1].shouldAnnounce
    /\ ~alerts[1].shouldVibrate
    /\ Len(stage.raw) = 2

\* C37: a tick whose detector output holds a detection at most 1 step away,
\* with confidence at least MIN_CONFIDENCE and within 0.25 of the middle of
\* the frame, emits an alert, whatever the cooldown table and the tracking
\* histories hold and whatever else is in the frame.
C37_VeryCloseAlwaysAlerts ==
    [][(/\ IsTick
        /\ outcome'.kind = "ok"
        /\ \E i \in DOMAIN stage'.raw :
              /\ stage'.raw[i].steps <= 1
              /\ stage'.raw[i].confidence >= MIN_CONFIDENCE
              /\ Abs(stage'.raw[i].x - 50) <= 25)
          => Len(alerts') = 1]_vars

\* the person one step away is alerted again on the next tick, inside its
\* cooldown and without having moved, next to a chair
C37_Witness ==
    /\ ticks = 2
    /\ outcome.kind = "ok"
    /\ Len(stage.raw) = 2
    /\ Len(alerts) = 1
    /\ alerts[1].detection.label = "person"
    /\ alerts[1].detection.steps = 1
    /\ <<"person", 5>> \in DOMAIN objectTracker
    /\ Len(objectTracker[<<"person", 5>>]) = 2
    /\ objectTracker[<<"person", 5>>][1].timestamp < now

\* C38: when a detection at most 1 step away is among the survivors of the
\* filters of a tick, the alert of the tick is urgent.
C38_VeryCloseMakesUrgent ==
    (\E i \in DOMAIN stage.filtered : stage.filtered[i].steps <= 1)
        => /\ Len(alerts) = 1
           /\ alerts[1].alertType = "urgent"

(***************************************************************************)
(* The service next to a copy of itself whose cleanOldTrackingData leaves  *)
(* lastAlerts alone, both fed the detections of every tick, with the       *)
(* camera stopped and restarted after 0.3 s or 40 s.                       *)
(***************************************************************************)
\* processDetections without the lastAlerts loop of cleanOldTrackingData
RunPipelineKeepingAlerts(raw, tracker, la, t) ==
    Synthesize(PipelineCenter(raw, filterCenterFOV(ConfidenceFilter(raw)),
                              [updateObjectTracking(tracker, la,
                                                    filterCenterFOV(ConfidenceFilter(raw)), t)
                                  EXCEPT !.lastAlerts = la],
                              t),
               t)

InitEvict ==
    /\ InitService
    /\ InitScreen
    /\ api = IdleApi
    /\ web = IdleWeb
    /\ probe = [phase |-> "twin", tracker |-> EmptyMap, lastAlerts |-> EmptyMap,
                cooldowns |-> EmptyMap, alerts |-> <<>>]

EvictToggle == ToggleCameraAfter(PauseDelays, PauseToggles)

\* the interval callback, with the copy processing the same detections
EvictTick ==
    /\ api.backend = "ai"
    /\ TimerIsNext(screen.detection, screen.cleanup)
    /\ ticks < PauseTicks
    /\ \E in \in ListsOf(PauseTemplates, MAX_SIMULATED_OBJECTS) :
       \E dets \in {MakeDetections(screen.detection.due, in, stepLength)} :
       \E r \in {RunPipeline(dets, objectTracker, lastAlerts, screen.detection.due)} :
       \E q \in {RunPipelineKeepingAlerts(dets, probe.tracker, probe.lastAlerts,
                                          screen.detection.due)} :
            /\ now' = screen.detection.due
            /\ objectTracker' = r.tracker
            /\ lastAlerts' = r.lastAlerts
            /\ stage' = r.stage
            /\ alerts' = r.alerts
            /\ emitted' = Emit(emitted, r.alerts, screen.detection.due)
            /\ screen' = [ShowAlert(screen, r.alerts, screen.detection.due)
                              EXCEPT !.detection.due = @ + DETECTION_INTERVAL_MS]
            /\ probe' = [probe EXCEPT !.tracker = q.tracker,
                                      !.lastAlerts = q.lastAlerts,
                                      !.cooldowns = q.stage.cooldowns,
                                      !.alerts = q.alerts]
    /\ outcome' = [kind |-> "ok"]
    /\ ticks' = ticks + 1
    /\ UNCHANGED <<stepLength, api, web, settings>>

NextEvict ==
    \/ EvictToggle
    \/ EvictTick

SpecEvict == InitEvict /\ [][NextEvict]_vars

\* C39: the service and the copy that never evicts a cooldown entry emit
\* the same alerts at every tick.
C39_EvictionKeepsAlerts ==
    alerts = probe.alerts

\* a chair alerted before a pause of 40 s is alerted again after it: the
\* service has evicted its cooldown entry, the copy still holds it
C39_Witness ==
    /\ ticks = 2
    /\ Len(alerts) = 1
    /\ alerts[1].detection.label = "chair"
    /\ alerts[1].detection.steps = 3
    /\ "chair" \notin DOMAIN stage.cooldowns
    /\ "chair" \in DOMAIN probe.cooldowns
    /\ now - probe.cooldowns["chair"] > ALERT_MAX_AGE

====
